---- MODULE Spec2Model ----
(***************************************************************************)
(* State-machine model of src/src/pages/DashboardPage.jsx (first revision, *)
(* lines 1-1306): the dashboard's in-memory caches (students, attendance,  *)
(* uploadPreview), its asynchronous handlers, and the hosted backend the   *)
(* handlers talk to.  Every await of a handler is a suspension point: the  *)
(* request travels in `net`, the backend answers it in a step of its own,  *)
(* and the handler resumes in a later step when the answer is delivered.   *)
(*                                                                         *)
(* JavaScript values are represented as follows: text and numbers held in  *)
(* client state are strings (a number is its decimal text), null in a text *)
(* column of the backend is NullText, integer columns of the backend are   *)
(* integers with NullInt for null.  The identifiers the backend gives to   *)
(* students (uuids) are represented by the integers 1, 2, ... in the order *)
(* in which the rows were stored.                                          *)
(***************************************************************************)
EXTENDS Integers, Sequences, FiniteSets, TLC

\* ------------------------------------------------------------------ bounds
\* Largest number of body rows of an uploaded sheet.
MaxRows == 120
\* The insert requests numbered 1..MaxThrowAt may end in a thrown exception.
MaxThrowAt == 2
\* How many times in all the user marks, clears, or changes the date.
MaxOps == 2

\* ------------------------------------------------------- program constants
\* commitUpload: rows per multi-row insert.
BATCH_SIZE == 50
\* fetchStudents: rows per page.
batchSize == 1000

\* ------------------------------------------------------------- JS values
NullText == "<null>"
NullInt == -1
NaN == -2

\* Decimal text of the integers the model uses.
NumeralText == [n \in 0..(MaxRows + 1) |-> ToString(n)]
Numerals == {NumeralText[n] : n \in DOMAIN NumeralText}
NumeralValue == [s \in Numerals |-> CHOOSE n \in DOMAIN NumeralText : NumeralText[n] = s]

\* Number(x) of JavaScript on a text: '' is 0, a decimal numeral is its value,
\* anything else is NaN.
Number(x) ==
  IF x = "" THEN 0
  ELSE IF x \in Numerals THEN NumeralValue[x]
  ELSE NaN

\* `Number(x) || null`: NaN and 0 are falsy.
NumberOrNull(x) ==
  LET n == Number(x) IN IF n = NaN \/ n = 0 THEN NullInt ELSE n

\* ---------------------------------------------------------- class directory
CLASS_CORRIDOR ==
  << [id |-> "k1", label |-> "C1"],
     [id |-> "k2", label |-> "C2"] >>

ClassIds == {CLASS_CORRIDOR[i].id : i \in DOMAIN CLASS_CORRIDOR}

\* ------------------------------------------------------------ row mappers
mapStudentFromDb(row) ==
  [ id |-> row.id,
    rollNumber |-> IF row.roll_number = NullInt THEN "" ELSE NumeralText[row.roll_number],
    name |-> IF row.full_name = NullText THEN "" ELSE row.full_name,
    classId |-> row.class_id,
    age |-> IF row.age = NullInt THEN "" ELSE NumeralText[row.age],
    phone |-> IF row.phone = NullText THEN "" ELSE row.phone,
    altPhone |-> IF row.alt_phone = NullText THEN "" ELSE row.alt_phone ]

mapToDbRow(previewRow) ==
  [ full_name |-> IF previewRow.name = "" THEN NullText ELSE previewRow.name,
    class_id |-> IF previewRow.classId = "" THEN NullText ELSE previewRow.classId,
    roll_number |-> IF previewRow.rollNumber = "" THEN NullInt
                    ELSE NumberOrNull(previewRow.rollNumber),
    age |-> IF previewRow.age = "" THEN NullInt ELSE NumberOrNull(previewRow.age),
    phone |-> IF previewRow.phone = "" THEN NullText ELSE previewRow.phone,
    alt_phone |-> IF previewRow.altPhone = "" THEN NullText ELSE previewRow.altPhone ]

SeqMap(Op(_), s) == [k \in 1..Len(s) |-> Op(s[k])]

Min(a, b) == IF a < b THEN a ELSE b

\* --------------------------------------------------------------- state
VARIABLES
  activeView,     \* useState('classes'), line 31
  selectedClass,  \* line 32
  students,       \* line 36: sequence of students
  attendance,     \* line 37: student id -> date -> status
  uploadPreview,  \* line 38: sequence of candidate rows
  uploadClass,    \* line 39
  selectedDate,   \* line 42
  searchTerm,     \* line 41: the text of the search box
  toast,          \* line 47
  excel,          \* handleExcelUpload suspended at `await file.arrayBuffer()`
  runs,           \* the commitUpload invocations, each with its locals
  stuFetch,       \* the fetchStudents invocation and its locals
  net,            \* requests on their way to the backend and answers on their way back
  nextReq,        \* number of the next insert request of commitUpload
  dbStudents,     \* backend table students
  dbNextId,       \* next identifier the backend assigns
  dbAttendance,   \* backend table attendance_records
  throwAt,        \* the requests that end in a thrown exception instead of an answer
  files,          \* the spreadsheet files the user has at hand
  editDraft,      \* the student the edit form holds, if it is open
  reportClass,    \* line 34: the class the reports view shows
  reportDateFrom, \* line 48: first date of the report, '' if none
  reportDateTo,   \* line 49: last date of the report, '' if none
  budget,         \* how many more times the user starts each kind of operation
  log             \* history: for every run, its insert requests in order of issue

vars == << activeView, selectedClass, students, attendance, uploadPreview, uploadClass,
           selectedDate, toast, excel, runs, stuFetch, net, nextReq, dbStudents,
           dbNextId, dbAttendance, throwAt, files, searchTerm, editDraft, reportClass,
           reportDateFrom, reportDateTo, budget, log >>

clientVars == << activeView, selectedClass, students, attendance, uploadPreview,
                 uploadClass, selectedDate, toast >>
dbVars == << dbStudents, dbNextId, dbAttendance >>
reportVars == << reportClass, reportDateFrom, reportDateTo >>

\* ---------------------------------------------------------------- notices
Toast(msg, a, b, c) == [msg |-> msg, a |-> a, b |-> b, c |-> c]
NoToast == Toast("", 0, 0, 0)

\* Line 44: the edit form is closed. An open form holds a student, or a student to
\* be with no id yet (lines 353-364).
NoDraft ==
  [ open |-> FALSE, id |-> NullInt, rollNumber |-> "", name |-> "", classId |-> "",
    age |-> "", phone |-> "", altPhone |-> "" ]

\* -------------------------------------------------------------- the network
\* `net` maps a key for every request that is under way to its message.  A
\* message is "sent" until the backend has handled it, then "replied" until the
\* handler that awaits it resumes and takes it out.
Request(op, owner, arg) ==
  [stage |-> "sent", op |-> op, owner |-> owner, arg |-> arg, no |-> 0,
   outcome |-> "pending", data |-> << >>]

\* The key a new message gets in n: the least number that is free.
NewId(n) == CHOOSE id \in 1..(Cardinality(DOMAIN n) + 1) : id \notin DOMAIN n

Reply(m, outcome, data) == [m EXCEPT !.stage = "replied", !.outcome = outcome, !.data = data]

NetPut(n, id, m) == [i \in DOMAIN n \cup {id} |-> IF i = id THEN m ELSE n[i]]
NetDrop(n, id) == [i \in DOMAIN n \ {id} |-> n[i]]

Sent(op) == {id \in DOMAIN net : net[id].stage = "sent" /\ net[id].op = op}
Replied(op) == {id \in DOMAIN net : net[id].stage = "replied" /\ net[id].op = op}

\* The exception a request can end in (lines 259, 273, 288): nothing was written.
BackendThrows ==
  \E id \in DOMAIN net :
    /\ net[id].stage = "sent"
    /\ net[id].no \in throwAt
    /\ net' = NetPut(net, id, Reply(net[id], "throw", << >>))
    /\ UNCHANGED << clientVars, dbVars, excel, runs, stuFetch, nextReq, throwAt, files, searchTerm, reportVars, editDraft,
                    budget, log >>

\* ------------------------------------------------- backend: table students
\* The backend's validation of a student row: full_name is required.
DbRejects(row) == row.full_name = NullText

DbStored(rows, firstId) == [k \in 1..Len(rows) |-> [id |-> firstId + k - 1] @@ rows[k]]

\* supabase.from('students').insert(payload).select(): one statement, all rows or none.
BackendInsert ==
  \E id \in Sent("insert") :
    /\ net[id].no \notin throwAt
    /\ IF \E k \in 1..Len(net[id].arg) : DbRejects(net[id].arg[k])
       THEN /\ net' = NetPut(net, id, Reply(net[id], "error", << >>))
            /\ UNCHANGED << dbStudents, dbNextId >>
       ELSE LET stored == DbStored(net[id].arg, dbNextId) IN
            /\ net' = NetPut(net, id, Reply(net[id], "ok", stored))
            /\ dbStudents' = dbStudents \o stored
            /\ dbNextId' = dbNextId + Len(net[id].arg)
    /\ UNCHANGED << clientVars, dbAttendance, excel, runs, stuFetch, nextReq, throwAt,
                    files, searchTerm, reportVars, editDraft, budget, log >>

\* ------------------------------------------------------- spreadsheet files
\* A file is named by what it holds: whether it can be read, the number of body
\* rows of its first sheet, and which of them are empty.
File(readable, rows, blanks) == [readable |-> readable, rows |-> rows, blanks |-> blanks]

HeaderRow == << "Roll", "Name", "Class", "Age", "Phone", "Alt" >>
BlankRow == << "", "", "", "", "", "" >>
FilledRow(k) == << NumeralText[k], "Abel", "C1", "12", "0911", "" >>

\* The sheet with n body rows of which those at the positions in blanks are empty.
GenSheet(n, blanks) ==
  << HeaderRow >> \o [k \in 1..n |-> IF k \in blanks THEN BlankRow ELSE FilledRow(k)]

\* Line 175: the rows sheet_to_json returns for the first sheet of a file (header: 1,
\* defval: '', blankrows: true, raw: false: every cell a text, empty rows kept).
\* A file may also be named by the rows of its sheet themselves.
SheetOf(f) == IF "sheet" \in DOMAIN f THEN f.sheet ELSE GenSheet(f.rows, f.blanks)

\* ------------------------------------------------------------ matchClass
\* The characters of the texts a class-hint cell can hold.
TextChars(s) ==
  CASE s = "" -> << >>
    [] s = "C1" -> << "C", "1" >>
    [] s = "C2" -> << "C", "2" >>
    [] s = "c2" -> << "c", "2" >>
    [] s = "0" -> << "0" >>
    [] s = "1" -> << "1" >>
    [] s = "2" -> << "2" >>
    [] s = "7" -> << "7" >>
    [] s = "10" -> << "1", "0" >>
    [] s = "x" -> << "x" >>
    [] s = "x1y0" -> << "x", "1", "y", "0" >>
    [] s = "XC2X" -> << "X", "C", "2", "X" >>
    [] s = "c2C1" -> << "c", "2", "C", "1" >>
    [] s = "3" -> << "3" >>
    [] s = "12" -> << "1", "2" >>
    [] s = "0911" -> << "0", "9", "1", "1" >>
    [] s = "Sara" -> << "S", "a", "r", "a" >>
    [] s = "Abel" -> << "A", "b", "e", "l" >>
    [] s = "s" -> << "s" >>
    [] s = "Sa " -> << "S", "a", " " >>
    [] s = "ra 2" -> << "r", "a", " ", "2" >>
    [] s = "xy" -> << "x", "y" >>
    [] OTHER -> << "?" >>

toLowerCase(cs) ==
  [k \in 1..Len(cs) |->
     CASE cs[k] = "C" -> "c" [] cs[k] = "X" -> "x" [] cs[k] = "S" -> "s" [] cs[k] = "A" -> "a"
       [] OTHER -> cs[k]]

includes(hay, needle) ==
  \E k \in 0..(Len(hay) - Len(needle)) : SubSeq(hay, k + 1, k + Len(needle)) = needle

Digits == { "0", "1", "2", "3", "4", "5", "6", "7", "8", "9" }
DigitValue(c) == CHOOSE n \in 0..9 : NumeralText[n] = c

\* The first digit alone.
FirstDigit(cs, k, acc) == DigitValue(cs[k])

RECURSIVE DigitRun(_, _, _)
\* Value of the run of digits of cs that starts at position k, given the value acc so far.
DigitRun(cs, k, acc) ==
  IF k > Len(cs) \/ cs[k] \notin Digits THEN acc
  ELSE DigitRun(cs, k + 1, 10 * acc + DigitValue(cs[k]))

matchClass(value) ==
  IF value = "" THEN CLASS_CORRIDOR[1].id
  ELSE
    LET normalized == toLowerCase(TextChars(value))
        hits == {c \in DOMAIN CLASS_CORRIDOR :
                   includes(normalized, toLowerCase(TextChars(CLASS_CORRIDOR[c].label)))}
        digitAt == {k \in 1..Len(normalized) : normalized[k] \in Digits}
    IN IF hits # {} THEN CLASS_CORRIDOR[CHOOSE c \in hits : \A d \in hits : c <= d].id
       ELSE IF digitAt # {}
       THEN LET index == DigitRun(normalized, CHOOSE k \in digitAt : \A d \in digitAt : k <= d, 0)
            IN IF index + 1 \in DOMAIN CLASS_CORRIDOR THEN CLASS_CORRIDOR[index + 1].id
               ELSE CLASS_CORRIDOR[1].id
       ELSE CLASS_CORRIDOR[1].id

\* ------------------------------------------------------ handleExcelUpload
\* aoa.reduce((m, r) => Math.max(m, r.length), 0)
MaxLen(rows) ==
  LET lens == {0} \cup {Len(rows[k]) : k \in 1..Len(rows)}
  IN CHOOSE m \in lens : \A n \in lens : n <= m

\* Rows left as they were read.
rowsAsRead(rows, maxCols) == rows
\* Lines 152-158.
normalizeRows(rows, maxCols) ==
  [k \in 1..Len(rows) |-> rows[k] \o [j \in 1..(maxCols - Len(rows[k])) |-> ""]]

\* row[j] ?? '' for the 0-based column j.
Cell(row, j) == IF j < Len(row) THEN row[j + 1] ELSE ""

\* safeId(idx): a generated placeholder, here the token of its index.
safeId(idx) == idx

\* A resolution from the hint cell whatever the destination class.
classIdByHint(uc, hint) == matchClass(hint)
\* uploadClass || matchClass(row[2]), line 191.
classIdOf(uc, hint) == IF uc # "" THEN uc ELSE matchClass(hint)

\* The rows below the header that hold some text.
filledBody(fixed) ==
  IF fixed = << >> THEN << >>
  ELSE SelectSeq(Tail(fixed), LAMBDA row : \E j \in 1..Len(row) : row[j] # "")
\* fixed.slice(1), line 183: all rows below the header.
body(fixed) == IF fixed = << >> THEN << >> ELSE Tail(fixed)

\* Lines 179-195: the candidate rows of a sheet, given the destination class.
ParseSheet(aoa, uc) ==
  LET fixed == normalizeRows(aoa, MaxLen(aoa))
      rows == body(fixed)
  IN [k \in 1..Len(rows) |->
        [ rowIndex |-> (k - 1) + 2,
          id |-> safeId(k - 1),
          rollNumber |-> Cell(rows[k], 0),
          name |-> Cell(rows[k], 1),
          classId |-> classIdOf(uc, Cell(rows[k], 2)),
          age |-> Cell(rows[k], 3),
          phone |-> Cell(rows[k], 4),
          altPhone |-> Cell(rows[k], 5) ]]

\* Line 518: the destination class selector of the upload view.
SetUploadClass ==
  \E c \in ClassIds :
    /\ activeView = "upload"
    /\ c # uploadClass
    /\ uploadClass' = c
    /\ UNCHANGED << activeView, selectedClass, students, attendance, uploadPreview,
                    selectedDate, toast, dbVars, excel, runs, stuFetch, net, nextReq,
                    throwAt, files, searchTerm, reportVars, editDraft, budget, log >>

\* The user picks a file in the upload view (line 809); the handler runs up to
\* `await file.arrayBuffer()` with the uploadClass of the render it was made in.
ExcelUploadStart ==
  \E f \in files :
    /\ activeView = "upload"
    /\ budget.uploads > 0
    /\ budget' = [budget EXCEPT !.uploads = @ - 1]
    /\ excel' = Append(excel, [file |-> f, uploadClass |-> uploadClass])
    /\ UNCHANGED << clientVars, dbVars, runs, stuFetch, net, nextReq, throwAt, files, searchTerm, reportVars, editDraft, log >>

\* A failed read that empties the preview.
PreviewLostOnError(preview, f, uc) ==
  IF f.readable THEN ParseSheet(SheetOf(f), uc) ELSE << >>
\* Line 201 after a complete parse; the catch of lines 204-207 sets no preview.
PreviewAfterRead(preview, f, uc) ==
  IF f.readable THEN ParseSheet(SheetOf(f), uc) ELSE preview

\* The file has been read: lines 167-203, or the catch of lines 204-207.
ExcelUploadDone ==
  \E k \in DOMAIN excel :
    /\ excel' = [j \in 1..(Len(excel) - 1) |-> IF j < k THEN excel[j] ELSE excel[j + 1]]
    /\ uploadPreview' = PreviewAfterRead(uploadPreview, excel[k].file, excel[k].uploadClass)
    /\ IF excel[k].file.readable
       THEN /\ activeView' = "upload"
            /\ toast' = Toast("Loaded rows from Excel", Len(uploadPreview'), 0, 0)
       ELSE /\ toast' = Toast("Error reading Excel file", 0, 0, 0)
            /\ UNCHANGED activeView
    /\ UNCHANGED << selectedClass, students, attendance, uploadClass, selectedDate, dbVars,
                    runs, stuFetch, net, nextReq, throwAt, files, searchTerm, reportVars, editDraft, budget, log >>

\* ------------------------------------------------------------ commitUpload
\* Lines 224-227: the number of chunks, and the b-th chunk (b counted from 0) as
\* the positions of the preview it holds.
NumBatchesFloor(preview) == Len(preview) \div BATCH_SIZE
NumBatches(preview) == (Len(preview) + BATCH_SIZE - 1) \div BATCH_SIZE
BatchFirst(b) == b * BATCH_SIZE + 1
BatchLast(preview, b) == Min(b * BATCH_SIZE + BATCH_SIZE, Len(preview))
batches(preview, b) == SubSeq(preview, BatchFirst(b), BatchLast(preview, b))

\* A commitUpload invocation: where it is suspended, the uploadPreview of the
\* render it was made in, and its locals.
NewRun(preview, awaiting) ==
  [ pc |-> "awaitBatch", preview |-> preview, batchIndex |-> 0, i |-> 0,
    successCount |-> 0, failedRows |-> << >>, insertedStudents |-> << >>,
    awaiting |-> awaiting ]

LogEntry(kind, first, last) ==
  [kind |-> kind, first |-> first, last |-> last, outcome |-> "pending"]

\* The log with the outcome of the request run r issued last.
Resolved(lg, r, outcome) == [lg EXCEPT ![r][Len(lg[r])].outcome = outcome]

\* The log with one more request of run r (a new run when r is Len(lg) + 1).
Logged(lg, r, entry) ==
  IF r \in DOMAIN lg THEN [lg EXCEPT ![r] = Append(@, entry)] ELSE Append(lg, << entry >>)

\* Lines 241, 251 and 280: run r submits the rows at positions first..last of its
\* preview in one insert; n and lg are the network and the log it is added to.
SendInsert(n, lg, r, kind, preview, first, last) ==
  /\ net' = NetPut(n, NewId(n),
                   [Request("insert", r, SeqMap(mapToDbRow, SubSeq(preview, first, last)))
                      EXCEPT !.no = nextReq])
  /\ nextReq' = nextReq + 1
  /\ log' = Logged(lg, r, LogEntry(kind, first, last))

SendBatch(n, lg, r, preview, b) ==
  SendInsert(n, lg, r, "batch", preview, BatchFirst(b), BatchLast(preview, b))

SendRow(n, lg, r, preview, p) == SendInsert(n, lg, r, "row", preview, p, p)

\* Lines 254, 261, 283 and 290: the entry of failedRows for a row that failed.
FailedRowByPlaceholder(original, error) == [row |-> original.id, error |-> error]
FailedRow(original, error) == [row |-> original.rowIndex, error |-> error]

\* Lines 299-301: the students list after the run.
StudentsReplaced(prev, insertedStudents) ==
  IF Len(insertedStudents) > 0 THEN insertedStudents ELSE prev
StudentsAfterCommit(prev, insertedStudents) ==
  IF Len(insertedStudents) > 0 THEN prev \o insertedStudents ELSE prev

\* Lines 303-309: the preview after the run.
PreviewAlwaysCleared(current, failedRows) == << >>
PreviewOfFailedRows(current, failedRows) ==
  SelectSeq(current, LAMBDA row : \E k \in DOMAIN failedRows : failedRows[k].row = row.rowIndex)
PreviewAfterCommit(current, failedRows) ==
  IF Len(failedRows) > 0 THEN current ELSE << >>

\* "Save to roster" (line 846, rendered while the preview is not empty): lines
\* 214-241, up to the first await.
CommitStart ==
  /\ activeView = "upload"
  /\ uploadPreview # << >>
  /\ budget.commits > 0
  /\ budget' = [budget EXCEPT !.commits = @ - 1]
  /\ runs' = Append(runs, NewRun(uploadPreview, NewId(net)))
  /\ SendBatch(net, log, Len(runs) + 1, uploadPreview, 0)
  /\ toast' = Toast("Uploading batch", 1, NumBatches(uploadPreview), 0)
  /\ UNCHANGED << activeView, selectedClass, students, attendance, uploadPreview,
                  uploadClass, selectedDate, dbVars, excel, stuFetch, throwAt, files, searchTerm, reportVars, editDraft >>

\* Lines 243 and 276: the chunk goes to the row-by-row fallback when its insert
\* has answered with an error or has thrown.
BatchAlwaysFallsBack(m) == TRUE
BatchFallsBack(m) == m.outcome # "ok"

\* Lines 241-272 and 273-275: the multi-row insert has resolved.
CommitBatchReply ==
  \E r \in DOMAIN runs :
    LET run == runs[r]
        m == net[run.awaiting]
    IN
    /\ run.pc = "awaitBatch"
    /\ run.awaiting \in DOMAIN net
    /\ m.stage = "replied"
    /\ IF ~BatchFallsBack(m)
       THEN /\ runs' = [runs EXCEPT ![r].pc = "delayBatch",
                                    ![r].successCount = @ + Len(m.data),
                                    ![r].insertedStudents = @ \o SeqMap(mapStudentFromDb, m.data)]
            /\ net' = NetDrop(net, run.awaiting)
            /\ log' = Resolved(log, r, m.outcome)
            /\ UNCHANGED nextReq
       ELSE /\ runs' = [runs EXCEPT ![r].pc = "awaitRow", ![r].i = 0, ![r].awaiting = NewId(NetDrop(net, run.awaiting))]
            /\ SendRow(NetDrop(net, run.awaiting), Resolved(log, r, m.outcome),
                       r, run.preview, BatchFirst(run.batchIndex))
    /\ UNCHANGED << clientVars, dbVars, excel, stuFetch, throwAt, files, searchTerm, reportVars, editDraft, budget >>

\* Lines 251-262 and 280-291: the insert of a single row has resolved.
CommitRowReply ==
  \E r \in DOMAIN runs :
    LET run == runs[r]
        m == net[run.awaiting]
        original == run.preview[BatchFirst(run.batchIndex) + run.i]
    IN
    /\ run.pc = "awaitRow"
    /\ run.awaiting \in DOMAIN net
    /\ m.stage = "replied"
    /\ IF m.outcome = "ok"
       THEN runs' = [runs EXCEPT ![r].pc = "delayRow",
                                 ![r].successCount = @ + 1,
                                 ![r].insertedStudents = @ \o SeqMap(mapStudentFromDb, m.data)]
       ELSE runs' = [runs EXCEPT ![r].pc = "delayRow",
                                 ![r].failedRows = Append(@, FailedRow(original, m.outcome))]
    /\ net' = NetDrop(net, run.awaiting)
    /\ log' = Resolved(log, r, m.outcome)
    /\ UNCHANGED << clientVars, dbVars, excel, stuFetch, nextReq, throwAt, files, searchTerm, reportVars, editDraft, budget >>

\* Lines 264-265 and 292-293: the 100 ms pause after a single row is over; the
\* next row of the chunk is submitted, or the chunk is finished.
CommitRowDelay ==
  \E r \in DOMAIN runs :
    LET run == runs[r]
        size == BatchLast(run.preview, run.batchIndex) - BatchFirst(run.batchIndex) + 1
    IN
    /\ run.pc = "delayRow"
    /\ IF run.i + 1 < size
       THEN /\ runs' = [runs EXCEPT ![r].pc = "awaitRow", ![r].i = @ + 1,
                                    ![r].awaiting = NewId(net)]
            /\ SendRow(net, log, r, run.preview, BatchFirst(run.batchIndex) + run.i + 1)
       ELSE /\ runs' = [runs EXCEPT ![r].pc = "delayBatch"]
            /\ UNCHANGED << net, nextReq, log >>
    /\ UNCHANGED << clientVars, dbVars, excel, stuFetch, throwAt, files, searchTerm, reportVars, editDraft, budget >>

\* Lines 296-297 and 234-241: the 300 ms pause after a chunk is over and another
\* chunk is left.
NextBatchWhen(pcs) ==
  \E r \in DOMAIN runs :
    LET run == runs[r] IN
    /\ run.pc \in pcs
    /\ run.batchIndex + 1 < NumBatches(run.preview)
    /\ runs' = [runs EXCEPT ![r].pc = "awaitBatch", ![r].batchIndex = @ + 1,
                            ![r].awaiting = NewId(net)]
    /\ SendBatch(net, log, r, run.preview, run.batchIndex + 1)
    /\ toast' = Toast("Uploading batch", run.batchIndex + 2, NumBatches(run.preview), 0)
    /\ UNCHANGED << activeView, selectedClass, students, attendance, uploadPreview,
                    uploadClass, selectedDate, dbVars, excel, stuFetch, throwAt, files, searchTerm, reportVars, editDraft,
                    budget >>

\* The next chunk submitted without awaiting the insert of the previous one.
NextBatchUnawaited == NextBatchWhen({ "delayBatch", "awaitBatch" })
CommitNextBatch == NextBatchWhen({ "delayBatch" })

\* Lines 296-311: the pause after the last chunk is over; the outcome is applied.
CommitFinish ==
  \E r \in DOMAIN runs :
    LET run == runs[r] IN
    /\ run.pc = "delayBatch"
    /\ ~(run.batchIndex + 1 < NumBatches(run.preview))
    /\ runs' = [runs EXCEPT ![r].pc = "done"]
    /\ students' = StudentsAfterCommit(students, run.insertedStudents)
    /\ toast' = IF Len(run.failedRows) > 0
                THEN Toast("Uploaded rows, rows failed", run.successCount,
                           Len(run.preview), Len(run.failedRows))
                ELSE Toast("All rows uploaded successfully", run.successCount, 0, 0)
    /\ uploadPreview' = PreviewAfterCommit(uploadPreview, run.failedRows)
    /\ UNCHANGED << activeView, selectedClass, attendance, uploadClass, selectedDate, dbVars,
                    excel, stuFetch, net, nextReq, throwAt, files, searchTerm, reportVars, editDraft, budget, log >>

\* ------------------------------------------------------------- navigation
Views == { "classes", "upload", "history", "reports" }

\* Line 484: a button of the action bar.
SetActiveView ==
  \E v \in Views :
    /\ budget.navs > 0
    /\ v # activeView
    /\ budget' = [budget EXCEPT !.navs = @ - 1]
    /\ activeView' = v
    /\ UNCHANGED << selectedClass, students, attendance, uploadPreview, uploadClass,
                    selectedDate, toast, dbVars, excel, runs, stuFetch, net, nextReq,
                    throwAt, files, searchTerm, reportVars, editDraft, log >>

\* Lines 97-101: a notice disappears after 3.5 s.
ToastTimeout ==
  /\ toast # NoToast
  /\ toast' = NoToast
  /\ UNCHANGED << activeView, selectedClass, students, attendance, uploadPreview,
                  uploadClass, selectedDate, dbVars, excel, runs, stuFetch, net, nextReq,
                  throwAt, files, searchTerm, reportVars, editDraft, budget, log >>

\* ---------------------------------------------------------- attendance map
Dates == { "2024-01-01", "2024-01-02" }
\* markingStatusOptions, lines 24-27.
Statuses == { "P", "PR" }

FnPut(f, k, v) == [x \in DOMAIN f \cup {k} |-> IF x = k THEN v ELSE f[x]]
FnDrop(f, k) == [x \in DOMAIN f \ {k} |-> f[x]]

\* `!row.student_id || !row.date` of line 1129.
RowUnusable(row) ==
  row.student_id = NullInt \/ row.student_id = 0 \/ row.date = NullText \/ row.date = ""

RECURSIVE ReduceRowsFirstWins(_, _, _)
ReduceRowsFirstWins(rows, k, acc) ==
  IF k > Len(rows) THEN acc
  ELSE LET row == rows[k] IN
       IF RowUnusable(row) THEN ReduceRowsFirstWins(rows, k + 1, acc)
       ELSE LET hist == IF row.student_id \in DOMAIN acc THEN acc[row.student_id] ELSE << >>
            IN ReduceRowsFirstWins(rows, k + 1,
                 IF row.date \in DOMAIN hist THEN acc
                 ELSE FnPut(acc, row.student_id, FnPut(hist, row.date, row.status)))

RECURSIVE ReduceRows(_, _, _)
\* The reduce of lines 1128-1133 from row k on, acc being the map so far.
ReduceRows(rows, k, acc) ==
  IF k > Len(rows) THEN acc
  ELSE LET row == rows[k] IN
       IF RowUnusable(row) THEN ReduceRows(rows, k + 1, acc)
       ELSE LET hist == IF row.student_id \in DOMAIN acc THEN acc[row.student_id] ELSE << >>
            IN ReduceRows(rows, k + 1,
                          FnPut(acc, row.student_id, FnPut(hist, row.date, row.status)))

buildAttendanceMapFirstWins(rows) == ReduceRowsFirstWins(rows, 1, << >>)
buildAttendanceMap(rows) == ReduceRows(rows, 1, << >>)

\* A mark that leaves an entry the pair already has as it is.
updateKeepingOld(state, studentId, date, status) ==
  IF studentId \in DOMAIN state /\ date \in DOMAIN state[studentId] THEN state
  ELSE FnPut(state, studentId,
             FnPut(IF studentId \in DOMAIN state THEN state[studentId] ELSE << >>, date, status))
updateAttendanceLocal(state, studentId, date, status) ==
  LET hist == IF studentId \in DOMAIN state THEN state[studentId] ELSE << >>
  IN FnPut(state, studentId, FnPut(hist, date, status))

\* A clear that drops the student's whole history.
removeWholeHistory(state, studentId, date) == FnDrop(state, studentId)
removeAttendanceLocal(state, studentId, date) ==
  IF studentId \notin DOMAIN state THEN state
  ELSE LET hist == FnDrop(state[studentId], date)
       IN IF DOMAIN hist # {} THEN FnPut(state, studentId, hist)
          ELSE FnDrop(state, studentId)

\* ------------------------------------------ backend: table attendance_records
SameKey(row, studentId, date) == row.student_id = studentId /\ row.date = date

\* upsert: the row of the same (student_id, date) is replaced, else the row is added.
DbUpsert(table, row) ==
  IF \E k \in 1..Len(table) : SameKey(table[k], row.student_id, row.date)
  THEN [k \in 1..Len(table) |->
          IF SameKey(table[k], row.student_id, row.date) THEN row ELSE table[k]]
  ELSE Append(table, row)

\* delete().match({ student_id, date })
DbDelete(table, studentId, date) ==
  LET keep == {k \in 1..Len(table) : ~SameKey(table[k], studentId, date)}
      nth(i) == CHOOSE k \in keep : Cardinality({j \in keep : j <= k}) = i
  IN [i \in 1..Cardinality(keep) |-> table[nth(i)]]

\* The backend handles an upsert or a delete of attendance: it applies it, or it
\* refuses it and leaves the table as it is.
BackendWriteAttendance ==
  \E id \in Sent("upsert") \cup Sent("delete") :
    \E outcome \in { "ok", "error" } :
      LET m == net[id] IN
      /\ net' = NetPut(net, id, Reply(m, outcome, << >>))
      /\ dbAttendance' =
           IF outcome = "error" THEN dbAttendance
           ELSE IF m.op = "upsert" THEN DbUpsert(dbAttendance, m.arg[1])
           ELSE DbDelete(dbAttendance, m.arg[1].student_id, m.arg[1].date)
      /\ UNCHANGED << clientVars, dbStudents, dbNextId, excel, runs, stuFetch, nextReq,
                      throwAt, files, searchTerm, reportVars, editDraft, budget, log >>

\* select('*') on attendance_records: the rows of the table as they are now, or an error.
BackendSelectAttendance ==
  \E id \in Sent("fetchAttendance") :
    \E outcome \in { "ok", "error" } :
      /\ net' = NetPut(net, id, Reply(net[id], outcome,
                                      IF outcome = "ok" THEN dbAttendance ELSE << >>))
      /\ UNCHANGED << clientVars, dbVars, excel, runs, stuFetch, nextReq, throwAt, files, searchTerm, reportVars, editDraft,
                      budget, log >>

\* ---------------------------------------------------------- fetchAttendance
\* Line 83: the request of fetchAttendance, added to the network n. The request
\* carries the call it comes from: the payload of the write whose failure called
\* fetchAttendance (lines 135 and 145), nothing for the call of the mount effect.
SendFetchAttendance(n, cause) ==
  /\ net' = NetPut(n, NewId(n), Request("fetchAttendance", 0, cause))
  /\ UNCHANGED nextReq

\* Lines 84-89: what the answer of the backend does to the attendance map.
AttendanceAppliedOnError(current, m) == buildAttendanceMap(m.data)
\* An answer that yields to the entries the map has and the answer lacks.
AttendanceMergedOnFetch(current, m) ==
  IF m.outcome # "ok" THEN current
  ELSE LET fresh == buildAttendanceMap(m.data) IN
       [ id \in DOMAIN fresh \cup DOMAIN current |->
           IF id \notin DOMAIN current THEN fresh[id]
           ELSE IF id \notin DOMAIN fresh THEN current[id]
           ELSE [ d \in DOMAIN fresh[id] \cup DOMAIN current[id] |->
                    IF d \in DOMAIN fresh[id] THEN fresh[id][d] ELSE current[id][d] ] ]
AttendanceAfterFetch(current, m) ==
  IF m.outcome # "ok" THEN current ELSE buildAttendanceMap(m.data)

FetchAttendanceReply ==
  \E id \in Replied("fetchAttendance") :
    /\ net' = NetDrop(net, id)
    /\ attendance' = AttendanceAfterFetch(attendance, net[id])
    /\ toast' = IF net[id].outcome # "ok"
                THEN Toast("Could not load attendance records", 0, 0, 0)
                ELSE toast
    /\ UNCHANGED << activeView, selectedClass, students, uploadPreview, uploadClass,
                    selectedDate, dbVars, excel, runs, stuFetch, nextReq, throwAt, files, searchTerm, reportVars, editDraft,
                    budget, log >>

\* ------------------------------------------- markAttendance, clearAttendance
\* Lines 104-112 with an empty search term: the students the class view lists.
\* String.prototype.trim on the characters of a text.
RECURSIVE trimStart(_)
trimStart(cs) == IF cs # << >> /\ Head(cs) = " " THEN trimStart(Tail(cs)) ELSE cs
RECURSIVE trimEnd(_)
trimEnd(cs) ==
  IF cs # << >> /\ cs[Len(cs)] = " " THEN trimEnd(SubSeq(cs, 1, Len(cs) - 1)) ELSE cs
trim(cs) == trimEnd(trimStart(cs))

\* Lines 105 and 115: the searchQuery the search box gives.
searchQuery == toLowerCase(trim(TextChars(searchTerm)))

\* Lines 109 and 118: the text of a student the searchQuery is looked up in. The
\* characters of the model are ASCII, which normalize('NFKD') leaves as they are.
hayOf(s) ==
  toLowerCase(TextChars(s.name) \o << " " >> \o TextChars(s.rollNumber) \o << " " >>
              \o TextChars(s.phone) \o << " " >> \o TextChars(s.altPhone))

\* Lines 104-112: the students of the class list, by their places in students.
filteredStudents ==
  {k \in 1..Len(students) :
     /\ students[k].classId = selectedClass
     /\ searchQuery = << >> \/ includes(hayOf(students[k]), searchQuery)}

\* Lines 114-121: the students of the search results, of whatever class.
globalSearchHits ==
  IF Len(searchQuery) < 2 THEN {}
  ELSE {k \in 1..Len(students) : includes(hayOf(students[k]), searchQuery)}

\* The students whose attendance buttons are on the page: those of the search
\* results (lines 390-436, above the views) and, in the classes view with a class
\* selected, those of the class list (lines 497-510 and 699).
markable ==
  globalSearchHits \cup
  (IF activeView = "classes" /\ selectedClass # NullText THEN filteredStudents ELSE {})

\* Lines 124-131: a status button of a student of the class view.
\* Line 380: the search box is edited.
SearchTerms == { "", "s", "Sa ", "ra 2", "xy" }

SetSearchTerm ==
  \E term \in SearchTerms :
    /\ term # searchTerm
    /\ searchTerm' = term
    /\ UNCHANGED << clientVars, dbVars, excel, runs, stuFetch, net, nextReq, throwAt, files,
                    reportVars, editDraft, budget, log >>

\* Line 682: a class button of the classes view is pressed; pressing the button
\* of the selected class deselects it.
SetSelectedClass ==
  \E klass \in ClassIds :
    /\ activeView = "classes"
    /\ selectedClass' = IF klass = selectedClass THEN NullText ELSE klass
    /\ UNCHANGED << activeView, students, attendance, uploadPreview, uploadClass,
                    selectedDate, toast, dbVars, excel, runs, stuFetch, net, nextReq,
                    throwAt, files, searchTerm, reportVars, editDraft, budget, log >>

MarkAttendance ==
  \E k \in markable :
    \E status \in Statuses :
      /\ budget.ops > 0
      /\ budget' = [budget EXCEPT !.ops = @ - 1]
      /\ attendance' = updateAttendanceLocal(attendance, students[k].id, selectedDate, status)
      /\ net' = NetPut(net, NewId(net),
                       Request("upsert", 0,
                               << [ student_id |-> students[k].id, class_id |-> selectedClass,
                                    date |-> selectedDate, status |-> status ] >>))
      /\ UNCHANGED nextReq
      /\ UNCHANGED << activeView, selectedClass, students, uploadPreview, uploadClass,
                      selectedDate, toast, dbVars, excel, runs, stuFetch, throwAt, files, searchTerm, reportVars, editDraft,
                      log >>

\* Lines 139-141: the Undo button of a student of the class view.
ClearAttendance ==
  \E k \in markable :
    /\ budget.ops > 0
    /\ budget' = [budget EXCEPT !.ops = @ - 1]
    /\ attendance' = removeAttendanceLocal(attendance, students[k].id, selectedDate)
    /\ net' = NetPut(net, NewId(net),
                     Request("delete", 0,
                             << [ student_id |-> students[k].id, date |-> selectedDate ] >>))
    /\ UNCHANGED nextReq
    /\ UNCHANGED << activeView, selectedClass, students, uploadPreview, uploadClass,
                    selectedDate, toast, dbVars, excel, runs, stuFetch, throwAt, files, searchTerm, reportVars, editDraft, log >>

\* Lines 132-136 and 142-146: the write has resolved; on an error the handler sets
\* a notice and calls fetchAttendance.
WriteAttendanceReply ==
  \E id \in Replied("upsert") \cup Replied("delete") :
    /\ IF net[id].outcome # "ok"
       THEN /\ toast' = IF net[id].op = "upsert"
                        THEN Toast("Could not save attendance", 0, 0, 0)
                        ELSE Toast("Could not clear attendance", 0, 0, 0)
            /\ SendFetchAttendance(NetDrop(net, id), net[id].arg)
       ELSE /\ net' = NetDrop(net, id)
            /\ UNCHANGED << toast, nextReq >>
    /\ UNCHANGED << activeView, selectedClass, students, attendance, uploadPreview,
                    uploadClass, selectedDate, dbVars, excel, runs, stuFetch, throwAt,
                    files, searchTerm, reportVars, editDraft, budget, log >>

\* Line 386: the date input.
SetSelectedDate ==
  \E d \in Dates :
    /\ budget.ops > 0
    /\ d # selectedDate
    /\ budget' = [budget EXCEPT !.ops = @ - 1]
    /\ selectedDate' = d
    /\ UNCHANGED << activeView, selectedClass, students, attendance, uploadPreview,
                    uploadClass, toast, dbVars, excel, runs, stuFetch, net, nextReq,
                    throwAt, files, searchTerm, reportVars, editDraft, log >>

\* ------------------------------------------------------------ fetchStudents
\* order('roll_number', { ascending: true }): nulls last, equal keys in table order.
RollBefore(rows, j, k) ==
  LET a == rows[j].roll_number
      b == rows[k].roll_number
  IN IF a = b THEN j < k
     ELSE IF a = NullInt THEN FALSE
     ELSE IF b = NullInt THEN TRUE
     ELSE a < b

OrderedByRoll(rows) ==
  IF \A k \in 1..(Len(rows) - 1) : RollBefore(rows, k, k + 1) THEN rows
  ELSE LET at(i) == CHOOSE k \in 1..Len(rows) :
                      Cardinality({j \in 1..Len(rows) : RollBefore(rows, j, k)}) = i - 1
       IN [i \in 1..Len(rows) |-> rows[at(i)]]

\* range(from, from + batchSize - 1) of the ordered table.
StudentsPage(rows, from) ==
  SubSeq(OrderedByRoll(rows), from + 1, Min(from + batchSize, Len(rows)))

\* The backend answers a page request of fetchStudents, or fails it.
BackendSelectStudents ==
  \E id \in Sent("fetchStudents") :
    \E outcome \in { "ok", "error" } :
      /\ net' = NetPut(net, id,
                       Reply(net[id], outcome,
                             IF outcome = "ok" THEN StudentsPage(dbStudents, net[id].arg[1].from)
                             ELSE << >>))
      /\ UNCHANGED << clientVars, dbVars, excel, runs, stuFetch, nextReq, throwAt, files, searchTerm, reportVars, editDraft,
                      budget, log >>

\* Lines 58-62: the request of the page that starts at row `from`.
StudentsRequest(from) == Request("fetchStudents", 0, << [from |-> from] >>)

\* Lines 64-68: the students list after a page request failed.
PartialListApplied(current, allStudents) == allStudents
StudentsAfterFailedPage(current, allStudents) == current

\* Lines 64-78: a page request of fetchStudents has resolved.
FetchStudentsReply ==
  LET id == stuFetch.awaiting
      m == net[id]
      all == stuFetch.allStudents \o SeqMap(mapStudentFromDb, m.data)
  IN
  /\ stuFetch.pc = "await"
  /\ id \in DOMAIN net
  /\ m.stage = "replied"
  /\ IF m.outcome # "ok"
     THEN /\ toast' = Toast("Could not load students from Supabase", 0, 0, 0)
          /\ students' = StudentsAfterFailedPage(students, stuFetch.allStudents)
          /\ stuFetch' = [stuFetch EXCEPT !.pc = "done", !.failedAt = stuFetch.from]
          /\ net' = NetDrop(net, id)
          /\ UNCHANGED nextReq
     ELSE IF Len(m.data) = 0 \/ Len(m.data) < batchSize
     THEN /\ students' = all
          /\ stuFetch' = [stuFetch EXCEPT !.pc = "done", !.allStudents = all]
          /\ net' = NetDrop(net, id)
          /\ UNCHANGED << toast, nextReq >>
     ELSE /\ stuFetch' = [stuFetch EXCEPT !.allStudents = all, !.from = @ + batchSize,
                                          !.awaiting = NewId(NetDrop(net, id))]
          /\ net' = NetPut(NetDrop(net, id), NewId(NetDrop(net, id)), StudentsRequest(stuFetch.from + batchSize))
          /\ UNCHANGED nextReq
          /\ UNCHANGED << toast, students >>
  /\ UNCHANGED << activeView, selectedClass, attendance, uploadPreview, uploadClass,
                  selectedDate, dbVars, excel, runs, throwAt, files, searchTerm, reportVars, editDraft, budget, log >>

\* ------------------------------------------------------------ the edit form
\* Lines 1108-1115: `x || null` for the texts, `Number(x) || null` for the numbers.
mapStudentToDb(student) ==
  [ full_name |-> IF student.name = "" THEN NullText ELSE student.name,
    class_id |-> IF student.classId = "" THEN NullText ELSE student.classId,
    roll_number |-> IF student.rollNumber = "" THEN NullInt
                    ELSE NumberOrNull(student.rollNumber),
    age |-> IF student.age = "" THEN NullInt ELSE NumberOrNull(student.age),
    phone |-> IF student.phone = "" THEN NullText ELSE student.phone,
    alt_phone |-> IF student.altPhone = "" THEN NullText ELSE student.altPhone ]

\* The edit form holding student s.
Draft(s) == [ open |-> TRUE ] @@ s

\* The student an open form holds.
DraftStudent(d) == [f \in DOMAIN d \ { "open" } |-> d[f]]

\* Line 353: the Edit button of a student of the class view.
StartEdit ==
  \E k \in filteredStudents :
    /\ activeView = "classes"
    /\ budget.ops > 0
    /\ budget' = [budget EXCEPT !.ops = @ - 1]
    /\ editDraft' = Draft(students[k])
    /\ UNCHANGED << clientVars, dbVars, excel, runs, stuFetch, net, nextReq, throwAt, files, searchTerm, reportVars,
                    log >>

\* Lines 355-364: the button that opens the form for a new student.
addEmptyStudent ==
  /\ activeView = "classes"
  /\ budget.ops > 0
  /\ budget' = [budget EXCEPT !.ops = @ - 1]
  /\ editDraft' = Draft([ id |-> NullInt, rollNumber |-> NumeralText[Len(students) + 1],
                          name |-> "", classId |-> selectedClass, age |-> "",
                          phone |-> "", altPhone |-> "" ])
  /\ UNCHANGED << clientVars, dbVars, excel, runs, stuFetch, net, nextReq, throwAt, files, searchTerm, reportVars,
                  log >>

\* The texts the user types in the name field of the form.
TypedNames == { "Marta" }

\* Lines 326-329: the user changes the name or the class in the open form.
handleEditChange ==
  /\ editDraft.open
  /\ budget.ops > 0
  /\ budget' = [budget EXCEPT !.ops = @ - 1]
  /\ \/ \E v \in TypedNames \ { editDraft.name } : editDraft' = [editDraft EXCEPT !.name = v]
     \/ \E c \in ClassIds \ { editDraft.classId } :
          editDraft' = [editDraft EXCEPT !.classId = c]
  /\ UNCHANGED << clientVars, dbVars, excel, runs, stuFetch, net, nextReq, throwAt, files, searchTerm, reportVars,
                  log >>

\* Lines 550 and 593: the Close and Cancel buttons of the form.
CloseDraft ==
  /\ editDraft.open
  /\ budget.ops > 0
  /\ budget' = [budget EXCEPT !.ops = @ - 1]
  /\ editDraft' = NoDraft
  /\ UNCHANGED << clientVars, dbVars, excel, runs, stuFetch, net, nextReq, throwAt, files, searchTerm, reportVars,
                  log >>

\* Lines 331-336 and 340: the form is submitted (its name field is `required`, line
\* 558); the handler runs up to the await of the update, when the draft has an id,
\* or of the insert. The request keeps the draft of the render it was made in.
EditSubmit ==
  /\ editDraft.open
  /\ editDraft.name # ""
  /\ budget.ops > 0
  /\ budget' = [budget EXCEPT !.ops = @ - 1]
  /\ net' = NetPut(net, NewId(net),
                   Request(IF editDraft.id # NullInt THEN "update" ELSE "create",
                           editDraft.id,
                           << mapStudentToDb(DraftStudent(editDraft)) >>))
  /\ UNCHANGED << clientVars, dbVars, excel, runs, stuFetch, nextReq, throwAt, files, searchTerm, reportVars,
                  editDraft, log >>

\* The messages of the errors the backend answers a write of a student with.
ErrorMessages == { "", "permission denied" }

\* The table without the rows whose id is studentId.
DbWithout(table, studentId) ==
  LET Other(row) == row.id # studentId IN SelectSeq(table, Other)

\* update(payload).eq('id', id).select().single() and insert(payload).select().single():
\* the backend stores the row and returns it, or answers with an error; an update
\* that finds no row of that id gives single() nothing to return, which is an error.
BackendSaveStudent ==
  \E id \in Sent("update") \cup Sent("create") :
    LET m == net[id]
        target == {k \in 1..Len(dbStudents) : dbStudents[k].id = m.owner}
    IN
    /\ \/ \E msg \in ErrorMessages :
            /\ net' = NetPut(net, id, Reply(m, "error", << [message |-> msg] >>))
            /\ UNCHANGED << dbStudents, dbNextId >>
       \/ /\ m.op = "update"
          /\ target = {}
          /\ net' = NetPut(net, id, Reply(m, "error", << [message |-> "no rows"] >>))
          /\ UNCHANGED << dbStudents, dbNextId >>
       \/ /\ m.op = "update"
          /\ target # {}
          /\ ~DbRejects(m.arg[1])
          /\ LET row == [id |-> m.owner] @@ m.arg[1] IN
             /\ net' = NetPut(net, id, Reply(m, "ok", << row >>))
             /\ dbStudents' = [k \in 1..Len(dbStudents) |->
                                 IF k \in target THEN row ELSE dbStudents[k]]
          /\ UNCHANGED dbNextId
       \/ /\ m.op = "create"
          /\ ~DbRejects(m.arg[1])
          /\ LET stored == DbStored(m.arg, dbNextId) IN
             /\ net' = NetPut(net, id, Reply(m, "ok", stored))
             /\ dbStudents' = dbStudents \o stored
          /\ dbNextId' = dbNextId + 1
    /\ UNCHANGED << clientVars, dbAttendance, excel, runs, stuFetch, nextReq, throwAt,
                    files, searchTerm, reportVars, editDraft, budget, log >>

\* The students list patched with the submitted values whatever the answer was.
StudentsPatchedAnyway(current, m) ==
  LET shown == mapStudentFromDb([id |-> m.owner] @@ m.arg[1]) IN
  IF m.op = "update"
  THEN [k \in 1..Len(current) |-> IF current[k].id = m.owner THEN shown ELSE current[k]]
  ELSE Append(current, shown)
\* Lines 337 and 342: the students list with the row the backend returned.
StudentsAfterSave(current, m) ==
  IF m.outcome # "ok" THEN current
  ELSE IF m.op = "update"
  THEN [k \in 1..Len(current) |->
          IF current[k].id = m.owner THEN mapStudentFromDb(m.data[1]) ELSE current[k]]
  ELSE Append(current, mapStudentFromDb(m.data[1]))

\* Lines 345-349: the draft after the answer.
DraftAfterSave(current, m) == IF m.outcome # "ok" THEN current ELSE NoDraft

\* Lines 336-349: the update or the insert has resolved.
SaveStudentReply ==
  \E id \in Replied("update") \cup Replied("create") :
    LET m == net[id] IN
    /\ net' = NetDrop(net, id)
    /\ students' = StudentsAfterSave(students, m)
    /\ editDraft' = DraftAfterSave(editDraft, m)
    /\ toast' = IF m.outcome = "ok" THEN Toast("Student details saved", 0, 0, 0)
                ELSE IF m.data[1].message # "" THEN Toast(m.data[1].message, 0, 0, 0)
                ELSE Toast("Could not save student", 0, 0, 0)
    /\ UNCHANGED << activeView, selectedClass, attendance, uploadPreview, uploadClass,
                    selectedDate, dbVars, excel, runs, stuFetch, nextReq, throwAt, files, searchTerm, reportVars,
                    budget, log >>

\* ------------------------------------------------------ handleStudentDelete
\* Line 316 (1490 in the second revision of the file): the Remove button of a
\* student of the class view; the handler runs up to the await of the delete.
StudentDelete ==
  \E k \in filteredStudents :
    /\ activeView = "classes"
    /\ budget.ops > 0
    /\ budget' = [budget EXCEPT !.ops = @ - 1]
    /\ net' = NetPut(net, NewId(net), Request("deleteStudent", students[k].id, << >>))
    /\ UNCHANGED << clientVars, dbVars, excel, runs, stuFetch, nextReq, throwAt, files, searchTerm, reportVars,
                    editDraft, log >>

\* delete().eq('id', studentId) on students: the row is removed, with or without the
\* attendance rows of the student, or the backend answers with an error.
BackendDeleteStudent ==
  \E id \in Sent("deleteStudent") :
    LET m == net[id]
        NotOf(row) == row.student_id # m.owner
    IN
    /\ \/ /\ net' = NetPut(net, id, Reply(m, "error", << >>))
          /\ UNCHANGED << dbStudents, dbAttendance >>
       \/ /\ net' = NetPut(net, id, Reply(m, "ok", << >>))
          /\ dbStudents' = DbWithout(dbStudents, m.owner)
          /\ dbAttendance' \in { dbAttendance, SelectSeq(dbAttendance, NotOf) }
    /\ UNCHANGED << clientVars, dbNextId, excel, runs, stuFetch, nextReq, throwAt, files, searchTerm, reportVars,
                    editDraft, budget, log >>

\* Line 628: the list the class view holds, a copy of filteredStudents made after
\* every render in which that list has changed.
classStudents == SelectSeq(students, LAMBDA s : \E k \in filteredStudents : students[k] = s)

RECURSIVE SendDeletes(_, _, _)
\* Line 651: handleStudentDelete is called for every student of the list from the
\* k-th on; each call runs up to its await (line 316) and returns.
SendDeletes(n, list, k) ==
  IF k > Len(list) THEN n
  ELSE SendDeletes(NetPut(n, NewId(n), Request("deleteStudent", list[k].id, << >>)),
                   list, k + 1)

\* Lines 649-653: "Delete all" of the class view (line 777, rendered under a
\* selected class while the list is not empty), which the user confirms or not.
deleteAllStudents ==
  \E confirmed \in BOOLEAN :
    /\ activeView = "classes"
    /\ selectedClass # NullText
    /\ classStudents # << >>
    /\ budget.ops > 0
    /\ budget' = [budget EXCEPT !.ops = @ - 1]
    /\ net' = IF confirmed THEN SendDeletes(net, classStudents, 1) ELSE net
    /\ UNCHANGED << clientVars, dbVars, excel, runs, stuFetch, nextReq, throwAt, files,
                    searchTerm, reportVars, editDraft, log >>

\* The students list without the student whatever the answer was.
StudentsFilteredAnyway(current, m) ==
  LET Other(s) == s.id # m.owner IN SelectSeq(current, Other)
\* Lines 317-322: the students list after the answer to the delete.
StudentsAfterDelete(current, m) ==
  LET Other(s) == s.id # m.owner IN
  IF m.outcome # "ok" THEN current ELSE SelectSeq(current, Other)

\* Lines 317-323, the first revision of the handler: the delete has resolved.
StudentDeleteReply ==
  \E id \in Replied("deleteStudent") :
    LET m == net[id] IN
    /\ net' = NetDrop(net, id)
    /\ students' = StudentsAfterDelete(students, m)
    /\ toast' = IF m.outcome # "ok" THEN Toast("Unable to delete student", 0, 0, 0)
                ELSE Toast("Student removed from roster", 0, 0, 0)
    /\ UNCHANGED << activeView, selectedClass, attendance, uploadPreview, uploadClass,
                    selectedDate, dbVars, excel, runs, stuFetch, nextReq, throwAt, files, searchTerm, reportVars,
                    editDraft, budget, log >>

\* The attendance map with every entry kept.
AttendanceKeptOnDelete(current, m) == current
\* Lines 1497-1501: the attendance map after the answer to the delete.
AttendanceAfterDelete(current, m) ==
  IF m.outcome # "ok" THEN current ELSE FnDrop(current, m.owner)

\* Lines 1491-1502, the second revision of the handler: the delete has resolved.
StudentDeleteReplyCascading ==
  \E id \in Replied("deleteStudent") :
    LET m == net[id] IN
    /\ net' = NetDrop(net, id)
    /\ students' = StudentsAfterDelete(students, m)
    /\ attendance' = AttendanceAfterDelete(attendance, m)
    /\ toast' = IF m.outcome # "ok" THEN Toast("Unable to delete student", 0, 0, 0)
                ELSE Toast("Student removed from roster", 0, 0, 0)
    /\ UNCHANGED << activeView, selectedClass, uploadPreview, uploadClass, selectedDate,
                    dbVars, excel, runs, stuFetch, nextReq, throwAt, files, searchTerm, reportVars, editDraft,
                    budget, log >>

\* ------------------------------------------------------------ buildClassReport
\* The dates of the model in calendar order. `date < dateFrom` of line 1165 compares
\* two texts, which for ISO dates is the calendar order.
DateOrder == << "2024-01-01", "2024-01-02" >>
DateRank(date) == CHOOSE k \in 1..Len(DateOrder) : DateOrder[k] = date
TextBefore(a, b) == DateRank(a) < DateRank(b)

\* The statuses a stored record may hold: those of the two buttons, 'A', and null
\* (buildAttendanceMap, line 1131, copies row.status as it is).
ReportStatuses == Statuses \cup { "A", NullText }

\* `!value` for a status: null and '' are falsy.
Falsy(value) == value \in { NullText, "" }

\* Object.entries(records), line 1164. An object lists its keys in the order they
\* were inserted; the maps of the model keep no such order, so the order is the
\* argument keys, a sequence of all dates.
ObjectKeys(records, keys) == SelectSeq(keys, LAMBDA date : date \in DOMAIN records)

\* A range that is open at both ends.
InRangeExclusive(date, dateFrom, dateTo) ==
  /\ dateFrom # "" => TextBefore(dateFrom, date)
  /\ dateTo # "" => TextBefore(date, dateTo)
\* Lines 1165-1167: the filter on a record's date.
InRange(date, dateFrom, dateTo) ==
  /\ ~(dateFrom # "" /\ TextBefore(date, dateFrom))
  /\ ~(dateTo # "" /\ TextBefore(dateTo, date))

RECURSIVE TakeWhileInRange(_, _, _, _)
TakeWhileInRange(entries, k, dateFrom, dateTo) ==
  IF k > Len(entries) \/ ~InRange(entries[k], dateFrom, dateTo) THEN << >>
  ELSE << entries[k] >> \o TakeWhileInRange(entries, k + 1, dateFrom, dateTo)
\* A filter that stops at the first record out of the range.
studentDatesUntilFirstMiss(records, keys, dateFrom, dateTo) ==
  TakeWhileInRange(ObjectKeys(records, keys), 1, dateFrom, dateTo)
\* Lines 1164-1168: the dates of a student's records in the range.
studentDates(records, keys, dateFrom, dateTo) ==
  SelectSeq(ObjectKeys(records, keys), LAMBDA date : InRange(date, dateFrom, dateTo))

\* Line 1160.
roster(studentList, classId) == SelectSeq(studentList, LAMBDA s : s.classId = classId)

\* attendance[student.id] || {}, lines 1163 and 1184.
RecordsOf(attendanceMap, student) ==
  IF student.id \in DOMAIN attendanceMap THEN attendanceMap[student.id] ELSE << >>

\* Lines 1161-1162: the accumulators of a run. absentDetailsMap is kept as the
\* sequence of its values in insertion order.
FreshReport ==
  [ counts |-> [P |-> 0, A |-> 0, PR |-> 0], dateSet |-> << >>, absentDetailsMap |-> << >> ]

\* dateSet.add(date), line 1171.
SetAddAgain(set, date) == Append(set, date)
SetAdd(set, date) ==
  IF \E k \in 1..Len(set) : set[k] = date THEN set ELSE Append(set, date)

HasEntry(map, student) == \E k \in 1..Len(map) : map[k].student.id = student.id

\* Lines 1175-1176 and 1189-1190: the entry is created when missing, then the date
\* is pushed.
PushDate(map, student, date) ==
  IF HasEntry(map, student)
  THEN [k \in 1..Len(map) |->
          IF map[k].student.id = student.id
          THEN [map[k] EXCEPT !.dates = Append(@, date)] ELSE map[k]]
  ELSE Append(map, [student |-> student, dates |-> << date >>])

\* Line 1190: the date is pushed unless the entry lists it.
PushDateOnce(map, student, date) ==
  IF \E k \in 1..Len(map) :
       /\ map[k].student.id = student.id
       /\ \E i \in 1..Len(map[k].dates) : map[k].dates[i] = date
  THEN map ELSE PushDate(map, student, date)

\* Lines 1170-1178: one record of the first pass.
CountRecord(acc, student, date, status) ==
  IF status \in { "P", "PR" }
  THEN [acc EXCEPT !.dateSet = SetAdd(@, date), !.counts[status] = @ + 1]
  ELSE [acc EXCEPT !.dateSet = SetAdd(@, date), !.counts.A = @ + 1,
                   !.absentDetailsMap = PushDate(@, student, date)]

RECURSIVE CountRecords(_, _, _, _, _)
CountRecords(acc, student, records, dates, j) ==
  IF j > Len(dates) THEN acc
  ELSE CountRecords(CountRecord(acc, student, dates[j], records[dates[j]]),
                    student, records, dates, j + 1)

RECURSIVE FirstPass(_, _, _, _, _, _, _)
\* Lines 1162-1180, from roster student k on.
FirstPass(acc, list, k, attendanceMap, keys, dateFrom, dateTo) ==
  IF k > Len(list) THEN acc
  ELSE LET records == RecordsOf(attendanceMap, list[k])
           dates == studentDates(records, keys, dateFrom, dateTo)
       IN FirstPass(CountRecords(acc, list[k], records, dates, 1),
                    list, k + 1, attendanceMap, keys, dateFrom, dateTo)

\* A second pass that derives no absence: only stored statuses count.
DeriveNothing(acc, student, records, date) == acc
\* Lines 1186-1191: one date of the second pass.
DeriveAbsence(acc, student, records, date) ==
  IF date \notin DOMAIN records \/ Falsy(records[date])
  THEN [acc EXCEPT !.counts.A = @ + 1,
                   !.absentDetailsMap = PushDateOnce(@, student, date)]
  ELSE acc

RECURSIVE DeriveForDates(_, _, _, _, _)
DeriveForDates(acc, student, records, allDatesInRange, j) ==
  IF j > Len(allDatesInRange) THEN acc
  ELSE DeriveForDates(DeriveAbsence(acc, student, records, allDatesInRange[j]),
                      student, records, allDatesInRange, j + 1)

RECURSIVE SecondPass(_, _, _, _, _)
\* Lines 1182-1193, from roster student k on. allDatesInRange is the dateSet the
\* first pass ended with.
SecondPass(acc, list, k, attendanceMap, allDatesInRange) ==
  IF k > Len(list) THEN acc
  ELSE SecondPass(DeriveForDates(acc, list[k], RecordsOf(attendanceMap, list[k]),
                                 allDatesInRange, 1),
                  list, k + 1, attendanceMap, allDatesInRange)

\* A percentage that drops the fraction.
pctTruncated(value, totalStudentDays) ==
  IF totalStudentDays = 0 THEN 0 ELSE (100 * value) \div totalStudentDays
\* Line 1196. Math.round takes the nearest integer and the upper one of two that are
\* equally near. The quotient is a floating-point number; it is a tie only when the
\* total is a multiple of 8, and the eighths are exact in binary.
pct(value, totalStudentDays) ==
  IF totalStudentDays = 0 THEN 0
  ELSE (200 * value + totalStudentDays) \div (2 * totalStudentDays)

\* Lines 1159-1209, keys being the order in which the records of a student are listed.
buildClassReport(studentList, attendanceMap, classId, dateFrom, dateTo, keys) ==
  LET list == roster(studentList, classId)
      first == FirstPass(FreshReport, list, 1, attendanceMap, keys, dateFrom, dateTo)
      acc == SecondPass(first, list, 1, attendanceMap, first.dateSet)
      counts == acc.counts
      totalStudentDays == counts.P + counts.A + counts.PR
  IN [ rosterSize |-> Len(list),
       uniqueDays |-> Len(acc.dateSet),
       totalStudentDays |-> totalStudentDays,
       counts |-> counts,
       percentages |-> [ P |-> pct(counts.P, totalStudentDays),
                         A |-> pct(counts.A, totalStudentDays),
                         PR |-> pct(counts.PR, totalStudentDays) ],
       absentDetails |-> acc.absentDetailsMap ]

\* The orders in which an object may list the dates.
KeyOrders == { DateOrder, << DateOrder[2], DateOrder[1] >> }

\* ----------------------------------------------------------- the reports view
\* Line 536: the class selector of the reports view.
SetReportClass ==
  \E c \in ClassIds :
    /\ activeView = "reports"
    /\ c # reportClass
    /\ reportClass' = c
    /\ UNCHANGED << clientVars, dbVars, excel, runs, stuFetch, net, nextReq, throwAt,
                    files, searchTerm, editDraft, reportDateFrom, reportDateTo, budget, log >>

\* Line 539: the first date of the range; clearing the field gives ''.
SetReportDateFrom ==
  \E d \in Dates \cup { "" } :
    /\ activeView = "reports"
    /\ d # reportDateFrom
    /\ reportDateFrom' = d
    /\ UNCHANGED << clientVars, dbVars, excel, runs, stuFetch, net, nextReq, throwAt,
                    files, searchTerm, editDraft, reportClass, reportDateTo, budget, log >>

\* Line 540: the last date of the range.
SetReportDateTo ==
  \E d \in Dates \cup { "" } :
    /\ activeView = "reports"
    /\ d # reportDateTo
    /\ reportDateTo' = d
    /\ UNCHANGED << clientVars, dbVars, excel, runs, stuFetch, net, nextReq, throwAt,
                    files, searchTerm, editDraft, reportClass, reportDateFrom, budget, log >>

\* Line 954: the report the view shows, for one order of the records.
Report(keys) ==
  buildClassReport(students, attendance, reportClass, reportDateFrom, reportDateTo, keys)

\* ------------------------------------------------------------------ Init
\* The component as constructed (lines 31-49).
InitClient ==
  /\ activeView = "classes"
  /\ selectedClass = CLASS_CORRIDOR[1].id
  /\ students = << >>
  /\ attendance = << >>
  /\ uploadPreview = << >>
  /\ uploadClass = CLASS_CORRIDOR[1].id
  /\ selectedDate = "2024-01-01"
  /\ toast = NoToast
  /\ excel = << >>
  /\ runs = << >>
  /\ log = << >>

\* A student row the backend holds before the session.
StoredStudent(id, class) ==
  [ id |-> id, full_name |-> "Sara", class_id |-> class, roll_number |-> id,
    age |-> NullInt, phone |-> NullText, alt_phone |-> NullText ]

\* An attendance row the backend holds before the session.
StoredAttendance(studentId, date, status) ==
  [ student_id |-> studentId, class_id |-> CLASS_CORRIDOR[1].id, date |-> date,
    status |-> status ]

\* Lines 92-95: the effect that runs once the component is mounted calls
\* fetchStudents and fetchAttendance; both requests are under way.
InitMounted ==
  /\ InitClient
  /\ stuFetch = [pc |-> "await", allStudents |-> << >>, from |-> 0, awaiting |-> 1,
                 failedAt |-> -1]
  /\ net = (1 :> StudentsRequest(0)) @@ (2 :> Request("fetchAttendance", 0, << >>))
  /\ nextReq = 1

\* ---------------------------------------------- the main specification
\* The dashboard once fetchStudents of the mount effect has set the two students
\* the backend holds, one of the class on view and one of the other class, with the
\* fetchAttendance of the same effect still under way.
InitStudentsLoaded ==
  /\ activeView = "classes"
  /\ selectedClass = CLASS_CORRIDOR[1].id
  /\ dbStudents = << StoredStudent(1, CLASS_CORRIDOR[1].id),
                     StoredStudent(2, CLASS_CORRIDOR[2].id) >>
  /\ dbNextId = 3
  /\ students = SeqMap(mapStudentFromDb, dbStudents)
  /\ attendance = << >>
  /\ uploadPreview = << >>
  /\ uploadClass = CLASS_CORRIDOR[1].id
  /\ selectedDate = "2024-01-01"
  /\ toast = NoToast
  /\ excel = << >>
  /\ runs = << >>
  /\ log = << >>
  /\ stuFetch = [pc |-> "done", allStudents |-> students, from |-> 0, awaiting |-> 0,
                 failedAt |-> -1]
  /\ net = (1 :> Request("fetchAttendance", 0, << >>))
  /\ nextReq = 1
  /\ throwAt = {}
  /\ files = {}
  /\ searchTerm = ""
  /\ editDraft = NoDraft
  /\ reportClass = CLASS_CORRIDOR[1].id
  /\ reportDateFrom = ""
  /\ reportDateTo = ""

\* A session of marks, clears and changes of date in the class view.
Init ==
  /\ InitStudentsLoaded
  /\ dbAttendance \in { << >>,
                        << StoredAttendance(1, "2024-01-01", "P"),
                           StoredAttendance(2, "2024-01-01", "P") >>,
                        << StoredAttendance(1, "2024-01-01", "P"),
                           StoredAttendance(1, "2024-01-02", "PR"),
                           StoredAttendance(2, "2024-01-01", "P") >> }
  /\ budget = [uploads |-> 0, commits |-> 0, navs |-> 0, ops |-> MaxOps]

Next ==
  \/ BackendSelectAttendance
  \/ FetchAttendanceReply
  \/ MarkAttendance
  \/ ClearAttendance
  \/ BackendWriteAttendance
  \/ WriteAttendanceReply
  \/ SetSelectedDate

Spec == Init /\ [][Next]_vars

\* ------------------------------------------------- the upload specification
\* Sheets whose sizes and blank rows sit at the chunk borders.
SheetSizes == { 1, 2, BATCH_SIZE, BATCH_SIZE + 1, MaxRows }
BlankCandidates == { 1, BATCH_SIZE + 1, 75, MaxRows }

UploadFiles ==
  { File(FALSE, 0, {}) } \cup
  UNION { { File(TRUE, n, blanks) : blanks \in SUBSET (BlankCandidates \cap 1..n) }
          : n \in SheetSizes }

\* The dashboard after its first load has completed, with the upload view still
\* to be opened; the user uploads one file and saves it.
InitUpload ==
  /\ activeView = "classes"
  /\ selectedClass = CLASS_CORRIDOR[1].id
  /\ dbStudents = << StoredStudent(1, CLASS_CORRIDOR[1].id) >>
  /\ dbNextId = 2
  /\ students = SeqMap(mapStudentFromDb, dbStudents)
  /\ dbAttendance = << >>
  /\ attendance = << >>
  /\ uploadPreview = << >>
  /\ uploadClass = CLASS_CORRIDOR[1].id
  /\ selectedDate = "2024-01-01"
  /\ toast = NoToast
  /\ excel = << >>
  /\ runs = << >>
  /\ log = << >>
  /\ stuFetch = [pc |-> "done", allStudents |-> << >>, from |-> 0, awaiting |-> 0,
                 failedAt |-> -1]
  /\ net = << >>
  /\ nextReq = 1
  /\ throwAt \in SUBSET (1..MaxThrowAt)
  /\ files = UploadFiles
  /\ searchTerm = ""
  /\ editDraft = NoDraft
  /\ reportClass = CLASS_CORRIDOR[1].id
  /\ reportDateFrom = ""
  /\ reportDateTo = ""
  /\ budget = [uploads |-> 1, commits |-> 1, navs |-> 1, ops |-> 0]

NextUpload ==
  \/ SetActiveView
  \/ ExcelUploadStart
  \/ ExcelUploadDone
  \/ CommitStart
  \/ BackendInsert
  \/ BackendThrows
  \/ CommitBatchReply
  \/ CommitRowReply
  \/ CommitRowDelay
  \/ CommitNextBatch
  \/ CommitFinish

SpecUpload == InitUpload /\ [][NextUpload]_vars

\* ------------------------------------------------- claims on commitUpload
Threw(r) == \E k \in 1..Len(log[r]) : log[r][k].outcome = "throw"

\* The positions of a preview whose row the backend rejects, and their row indices.
RejectedPositions(preview) == {p \in 1..Len(preview) : DbRejects(mapToDbRow(preview[p]))}
RejectedRowIndices(preview) == {preview[p].rowIndex : p \in RejectedPositions(preview)}

FailedRowSet(run) == {run.failedRows[k].row : k \in 1..Len(run.failedRows)}

\* C1: when commitUpload has finished on a preview of N rows, successCount +
\* failedRows.length = N and no row is recorded twice; and when no request ended
\* in an exception (the backend fails an insert iff it holds a rejected row), the
\* row indices recorded in failedRows are exactly those of the rejected rows.
C1_CountsAndFailedSet ==
  \A r \in DOMAIN runs :
    runs[r].pc = "done" =>
      /\ runs[r].successCount + Len(runs[r].failedRows) = Len(runs[r].preview)
      /\ Cardinality(FailedRowSet(runs[r])) = Len(runs[r].failedRows)
      /\ ~Threw(r) => FailedRowSet(runs[r]) = RejectedRowIndices(runs[r].preview)

\* A run over several chunks has finished with some rows failed and some persisted.
C1_Witness ==
  \E r \in DOMAIN runs :
    /\ runs[r].pc = "done"
    /\ ~Threw(r)
    /\ Len(runs[r].preview) > BATCH_SIZE
    /\ Len(runs[r].failedRows) > 1
    /\ runs[r].successCount > BATCH_SIZE

\* ceil(n / BATCH_SIZE)
ChunkCount(n) == IF n % BATCH_SIZE = 0 THEN n \div BATCH_SIZE ELSE (n \div BATCH_SIZE) + 1

BatchEntries(r) == {k \in 1..Len(log[r]) : log[r][k].kind = "batch"}
RowEntries(r) == {k \in 1..Len(log[r]) : log[r][k].kind = "row"}

\* The chunk (counted from 1) of the row at position p.
ChunkOf(p) == ((p - 1) \div BATCH_SIZE) + 1

\* C2: a finished run on N rows has attempted exactly one multi-row insert for each
\* of the ceil(N/50) consecutive chunks of at most 50 rows; the rows of a chunk are
\* submitted one by one iff the chunk's insert returned an error or threw, and then
\* every row of the chunk is submitted exactly once.  During a run no row is
\* submitted alone unless the insert of its chunk has failed.  Instance: 120 rows of
\* which only row 75 is rejected: 3 chunk attempts, only chunk 2 falls back, one
\* failure (row 75, row index 76), 119 rows created.
C2_ChunksAndFallback ==
  \A r \in DOMAIN runs :
    LET n == Len(runs[r].preview)
        lg == log[r]
        batchAt == BatchEntries(r)
        rowAt == RowEntries(r)
        failedChunks == {ChunkOf(lg[b].first) : b \in {k \in batchAt : lg[k].outcome \in { "error", "throw" }}}
    IN
    /\ \A k \in rowAt : ChunkOf(lg[k].first) \in failedChunks
    /\ runs[r].pc = "done" =>
         /\ Cardinality(batchAt) = ChunkCount(n)
         /\ \A c \in 1..ChunkCount(n) :
              LET entry == {k \in batchAt : lg[k].first = (c - 1) * BATCH_SIZE + 1}
                  rowsOf == {k \in rowAt : ChunkOf(lg[k].first) = c}
              IN
              /\ Cardinality(entry) = 1
              /\ \A k \in entry :
                   /\ lg[k].last = Min(c * BATCH_SIZE, n)
                   /\ lg[k].outcome \in { "ok", "error", "throw" }
                   /\ IF lg[k].outcome = "ok"
                      THEN rowsOf = {}
                      ELSE /\ {lg[j].first : j \in rowsOf} = lg[k].first..lg[k].last
                           /\ Cardinality(rowsOf) = lg[k].last - lg[k].first + 1
         /\ (n = 120 /\ RejectedPositions(runs[r].preview) = {75} /\ ~Threw(r)) =>
              /\ Cardinality(batchAt) = 3
              /\ {ChunkOf(lg[k].first) : k \in rowAt} = {2}
              /\ runs[r].failedRows = << [row |-> 76, error |-> "error"] >>
              /\ runs[r].successCount = 119
              /\ Len(runs[r].insertedStudents) = 119

\* The instance: 120 rows, only row 75 rejected, the run has finished.
C2_Witness ==
  \E r \in DOMAIN runs :
    /\ runs[r].pc = "done"
    /\ Len(runs[r].preview) = 120
    /\ RejectedPositions(runs[r].preview) = {75}
    /\ ~Threw(r)
    /\ Len(runs[r].failedRows) = 1

\* C3: the insert requests of a run reach the backend one at a time and in input
\* order: at most one request of the run is under way, every request but the last
\* issued has resolved, and each request continues where the previous one stopped
\* (the first row of a chunk after the chunk's failed insert, the next row after a
\* row, the next chunk after the last row of a chunk or after a chunk's success).
C3_OneAtATimeInOrder ==
  \A r \in DOMAIN runs :
    LET lg == log[r] IN
    /\ Cardinality({id \in DOMAIN net : net[id].op = "insert" /\ net[id].owner = r}) <= 1
    /\ lg[1].kind = "batch" /\ lg[1].first = 1
    /\ \A k \in 2..Len(lg) :
         LET prev == lg[k - 1]
             this == lg[k]
         IN
         /\ prev.outcome # "pending"
         /\ IF prev.kind = "batch"
            THEN IF prev.outcome = "ok"
                 THEN this.kind = "batch" /\ this.first = prev.last + 1
                 ELSE this.kind = "row" /\ this.first = prev.first
            ELSE /\ this.first = prev.first + 1
                 /\ this.kind = "batch" <=> (prev.first % BATCH_SIZE = 0)

\* A run has gone through a fallback and then submitted the next chunk.
C3_Witness ==
  \E r \in DOMAIN runs :
    \E k \in 2..Len(log[r]) :
      /\ log[r][k].kind = "batch"
      /\ log[r][k - 1].kind = "row"
      /\ log[r][k].outcome = "pending"
      /\ \E id \in DOMAIN net : net[id].owner = r /\ net[id].stage = "sent"

\* Run r takes its last step (lines 299-311) in the step at hand.
Finishes(r) == r \in DOMAIN runs /\ runs[r].pc # "done" /\ runs'[r].pc = "done"

\* C4: in the step that ends a run, uploadPreview becomes the empty list when no row
\* failed; when a row failed it is left as it is, which is the preview the run was
\* started on, and the notice reports the numbers of persisted, submitted and
\* failed rows.
C4_PreviewAfterCommit ==
  [][\A r \in DOMAIN runs :
       Finishes(r) =>
         IF runs[r].failedRows = << >>
         THEN uploadPreview' = << >>
         ELSE /\ uploadPreview' = uploadPreview
              /\ uploadPreview' = runs[r].preview
              /\ toast' = Toast("Uploaded rows, rows failed", runs[r].successCount,
                                Len(runs[r].preview), Len(runs[r].failedRows))]_vars

\* A run has ended with failed rows and the preview is still there.
C4_Witness ==
  \E r \in DOMAIN runs :
    /\ runs[r].pc = "done"
    /\ Len(runs[r].failedRows) > 0
    /\ runs[r].successCount > 0
    /\ uploadPreview = runs[r].preview
    /\ toast.msg = "Uploaded rows, rows failed"

\* The positions of the preview of run r that a successful insert has covered.
PersistedPositions(r) ==
  UNION { log[r][k].first..log[r][k].last :
            k \in {j \in 1..Len(log[r]) : log[r][j].outcome = "ok"} }

\* C5: in the step that ends a run, the students list becomes its prior contents
\* followed by one student for every row a successful insert covered, in input
\* order, each as the backend stored it; with no such row the list is unchanged.
C5_StudentsMerged ==
  [][\A r \in DOMAIN runs :
       Finishes(r) =>
         LET persisted == PersistedPositions(r)
             added == SubSeq(students', Len(students) + 1, Len(students'))
         IN
         /\ Len(students') = Len(students) + Cardinality(persisted)
         /\ SubSeq(students', 1, Len(students)) = students
         /\ \A k \in 1..Len(added) :
              LET p == CHOOSE q \in persisted :
                         Cardinality({x \in persisted : x <= q}) = k
              IN
              /\ added[k].rollNumber = runs[r].preview[p].rollNumber
              /\ added[k].name = runs[r].preview[p].name
              /\ added[k].classId = runs[r].preview[p].classId
              /\ \E i \in 1..Len(dbStudents) :
                   /\ dbStudents[i].id = added[k].id
                   /\ mapStudentFromDb(dbStudents[i]) = added[k]
              /\ k > 1 => added[k - 1].id < added[k].id]_vars

\* A run that persisted some rows and not others has ended, and the student that
\* was in the list before is still its first.
C5_Witness ==
  \E r \in DOMAIN runs :
    /\ runs[r].pc = "done"
    /\ Len(runs[r].failedRows) > 0
    /\ Len(runs[r].insertedStudents) > BATCH_SIZE
    /\ Len(students) = 1 + Len(runs[r].insertedStudents)
    /\ students[1].name = "Sara"

\* ------------------------------------------- the attendance-map specification
\* The attendance table as other writers may have left it: up to MaxTableRows rows,
\* among them rows for the same pair and rows without a student or a date.
MaxTableRows == 3

TableRows ==
  [ student_id : { 1, NullInt }, class_id : { CLASS_CORRIDOR[1].id },
    date : { "2024-01-01", NullText }, status : Statuses ]

Tables == UNION { [1..n -> TableRows] : n \in 0..MaxTableRows }

\* The dashboard with its students loaded and the fetchAttendance of the mount
\* effect under way; the map is then built from the table, and one mark, clear or
\* change of date follows or comes before.
InitMap ==
  /\ InitStudentsLoaded
  /\ dbAttendance \in Tables
  /\ budget = [uploads |-> 0, commits |-> 0, navs |-> 0, ops |-> 1]

NextMap ==
  \/ BackendSelectAttendance
  \/ FetchAttendanceReply
  \/ MarkAttendance
  \/ ClearAttendance
  \/ BackendWriteAttendance
  \/ WriteAttendanceReply
  \/ SetSelectedDate

SpecMap == InitMap /\ [][NextMap]_vars

\* ------------------------------------------------- the loading specification
\* Tables of students around the size of a page of fetchStudents. The first student
\* is of the first class and the others of the second; all have roll number 0, so
\* that the table is in the order of the select.
PagedStudent(k) ==
  [StoredStudent(k, CLASS_CORRIDOR[IF k = 1 THEN 1 ELSE 2].id) EXCEPT !.roll_number = 0]

TableSizes == { 1, batchSize, batchSize + 1 }

\* The component has just been mounted; while it loads, the user may mark a student
\* and may upload and save a sheet of one row.
InitFetch ==
  /\ InitMounted
  /\ \E n \in TableSizes : dbStudents = [k \in 1..n |-> PagedStudent(k)]
  /\ dbNextId = Len(dbStudents) + 1
  /\ dbAttendance = << StoredAttendance(1, "2024-01-01", "P") >>
  /\ throwAt = {}
  /\ files = { File(TRUE, 1, {}) }
  /\ searchTerm = ""
  /\ editDraft = NoDraft
  /\ reportClass = CLASS_CORRIDOR[1].id
  /\ reportDateFrom = ""
  /\ reportDateTo = ""
  /\ budget = [uploads |-> 1, commits |-> 1, navs |-> 1, ops |-> 1]

NextFetch ==
  \/ BackendSelectStudents
  \/ FetchStudentsReply
  \/ BackendSelectAttendance
  \/ FetchAttendanceReply
  \/ MarkAttendance
  \/ BackendWriteAttendance
  \/ WriteAttendanceReply
  \/ SetActiveView
  \/ ExcelUploadStart
  \/ ExcelUploadDone
  \/ CommitStart
  \/ BackendInsert
  \/ CommitBatchReply
  \/ CommitFinish
  \/ ToastTimeout

SpecFetch == InitFetch /\ [][NextFetch]_vars

\* --------------------------------------------------- the roster specification
\* Number of things the user does with the roster in a session.
MaxRosterOps == 4

\* The dashboard with its students loaded, both with an attendance row at the
\* backend; the user edits, adds and removes students.
InitRoster ==
  /\ InitStudentsLoaded
  /\ dbAttendance = << StoredAttendance(1, "2024-01-01", "P"),
                       StoredAttendance(2, "2024-01-01", "PR") >>
  /\ budget = [uploads |-> 0, commits |-> 0, navs |-> 0, ops |-> MaxRosterOps]

\* The user's actions on the roster and the backend's part in them.
RosterActions ==
  \/ BackendSelectAttendance
  \/ FetchAttendanceReply
  \/ StartEdit
  \/ addEmptyStudent
  \/ handleEditChange
  \/ CloseDraft
  \/ EditSubmit
  \/ BackendSaveStudent
  \/ SaveStudentReply
  \/ StudentDelete
  \/ BackendDeleteStudent

\* The first revision of the file (lines 1-1306).
NextRoster ==
  \/ RosterActions
  \/ StudentDeleteReply

SpecRoster == InitRoster /\ [][NextRoster]_vars

\* The second revision of the file (lines 1308-3050), whose handleStudentDelete also
\* drops the attendance of the student.
NextRosterCascading ==
  \/ RosterActions
  \/ StudentDeleteReplyCascading

SpecRosterCascading == InitRoster /\ [][NextRosterCascading]_vars

\* ------------------------------------------------- the reports specification
\* The reports view over a loaded roster of three students and a loaded table of at
\* most MaxRecords attendance rows.
MaxRecords == 3

\* The (student, date) pairs a row can be about, and the row of each.
ReportCells ==
  [ k \in 1..(3 * Len(DateOrder)) |->
      [ id |-> ((k - 1) \div Len(DateOrder)) + 1,
        date |-> DateOrder[((k - 1) % Len(DateOrder)) + 1] ] ]

\* A table with one row for each pair that marks gives a status.
ReportTable(marks) ==
  LET kept == SelectSeq([k \in DOMAIN ReportCells |-> k], LAMBDA k : marks[k] # "none")
  IN [ i \in 1..Len(kept) |->
         StoredAttendance(ReportCells[kept[i]].id, ReportCells[kept[i]].date,
                          marks[kept[i]]) ]

ReportTables ==
  { ReportTable(marks) :
      marks \in { m \in [DOMAIN ReportCells -> ReportStatuses \cup { "none" }] :
                    Cardinality({ k \in DOMAIN m : m[k] # "none" }) <= MaxRecords } }

InitReport ==
  /\ activeView = "reports"
  /\ selectedClass = CLASS_CORRIDOR[1].id
  /\ \E c \in ClassIds :
       dbStudents = << StoredStudent(1, CLASS_CORRIDOR[1].id),
                       StoredStudent(2, CLASS_CORRIDOR[1].id), StoredStudent(3, c) >>
  /\ dbNextId = 4
  /\ students = SeqMap(mapStudentFromDb, dbStudents)
  /\ dbAttendance \in ReportTables
  /\ attendance = buildAttendanceMap(dbAttendance)
  /\ uploadPreview = << >>
  /\ uploadClass = CLASS_CORRIDOR[1].id
  /\ selectedDate = "2024-01-01"
  /\ toast = NoToast
  /\ excel = << >>
  /\ runs = << >>
  /\ log = << >>
  /\ stuFetch = [pc |-> "done", allStudents |-> students, from |-> 0, awaiting |-> 0,
                 failedAt |-> -1]
  /\ net = << >>
  /\ nextReq = 1
  /\ throwAt = {}
  /\ files = {}
  /\ searchTerm = ""
  /\ editDraft = NoDraft
  /\ reportClass = CLASS_CORRIDOR[1].id
  /\ reportDateFrom = ""
  /\ reportDateTo = ""
  /\ budget = [uploads |-> 0, commits |-> 0, navs |-> 0, ops |-> 0]

NextReport == SetReportClass \/ SetReportDateFrom \/ SetReportDateTo

SpecReport == InitReport /\ [][NextReport]_vars

\* --------------------------------------------------- the parsing specification
\* The upload view with one file at hand to parse: sheets of at most MaxBodyRows rows below
\* the header, whose rows hold from no cell to MaxCells cells and whose class-hint
\* cell holds any of the hints.
MaxBodyRows == 2
MaxCells == 7

Hints == { "", "C1", "c2", "0", "1", "2", "7", "10", "x", "x1y0", "XC2X", "c2C1" }

\* A row of len cells with the given class hint in its third cell.
SheetRow(len, hint) ==
  [ j \in 1..len |->
      CASE j = 1 -> "1" [] j = 2 -> "Abel" [] j = 3 -> hint [] j = 4 -> "12"
        [] OTHER -> "0911" ]

RowLengths == { 0, 2, 3, 6, MaxCells }

\* The rows the first body row runs over, and those the later ones run over.
SheetRows ==
  { SheetRow(len, hint) : len \in RowLengths, hint \in Hints } \cup { FilledRow(1), BlankRow }
LaterRows ==
  { SheetRow(len, hint) : len \in RowLengths, hint \in { "", "c2" } } \cup { BlankRow }

\* The sheets: one with no row at all, and a header row followed by the body rows.
ParseSheets ==
  { << >> } \cup
  UNION { { << header >> \o below :
              header \in { SheetRow(3, "Class"), SheetRow(6, "Class"), HeaderRow },
              below \in { b \in [1..n -> SheetRows] : \A k \in 2..n : b[k] \in LaterRows } }
          : n \in 0..MaxBodyRows }

ParseFiles == { [readable |-> TRUE, sheet |-> aoa] : aoa \in ParseSheets }

InitParse ==
  /\ activeView = "upload"
  /\ selectedClass = CLASS_CORRIDOR[1].id
  /\ dbStudents = << StoredStudent(1, CLASS_CORRIDOR[1].id) >>
  /\ dbNextId = 2
  /\ students = SeqMap(mapStudentFromDb, dbStudents)
  /\ dbAttendance = << >>
  /\ attendance = << >>
  /\ uploadPreview = << >>
  /\ uploadClass = CLASS_CORRIDOR[1].id
  /\ selectedDate = "2024-01-01"
  /\ toast = NoToast
  /\ excel = << >>
  /\ runs = << >>
  /\ log = << >>
  /\ stuFetch = [pc |-> "done", allStudents |-> students, from |-> 0, awaiting |-> 0,
                 failedAt |-> -1]
  /\ net = << >>
  /\ nextReq = 1
  /\ throwAt = {}
  /\ \E f \in ParseFiles : files = { f }
  /\ searchTerm = ""
  /\ editDraft = NoDraft
  /\ reportClass = CLASS_CORRIDOR[1].id
  /\ reportDateFrom = ""
  /\ reportDateTo = ""
  /\ budget = [uploads |-> 1, commits |-> 0, navs |-> 0, ops |-> 0]

NextParse == SetUploadClass \/ ExcelUploadStart \/ ExcelUploadDone

SpecParse == InitParse /\ [][NextParse]_vars

\* ------------------------------------------- the failed-read specification
\* The upload view with two sheets and a file that cannot be read at hand; the user
\* picks files MaxPicks times and may leave the view meanwhile.
MaxPicks == 2

FailFiles ==
  { [readable |-> TRUE, sheet |-> << HeaderRow, FilledRow(1), BlankRow >>],
    [readable |-> TRUE, sheet |-> << HeaderRow, FilledRow(1) >>],
    [readable |-> FALSE, sheet |-> << >>] }

InitParseFail ==
  /\ activeView = "upload"
  /\ selectedClass = CLASS_CORRIDOR[1].id
  /\ dbStudents = << StoredStudent(1, CLASS_CORRIDOR[1].id) >>
  /\ dbNextId = 2
  /\ students = SeqMap(mapStudentFromDb, dbStudents)
  /\ dbAttendance = << >>
  /\ attendance = << >>
  /\ uploadPreview = << >>
  /\ uploadClass = CLASS_CORRIDOR[1].id
  /\ selectedDate = "2024-01-01"
  /\ toast = NoToast
  /\ excel = << >>
  /\ runs = << >>
  /\ log = << >>
  /\ stuFetch = [pc |-> "done", allStudents |-> students, from |-> 0, awaiting |-> 0,
                 failedAt |-> -1]
  /\ net = << >>
  /\ nextReq = 1
  /\ throwAt = {}
  /\ files = FailFiles
  /\ searchTerm = ""
  /\ editDraft = NoDraft
  /\ reportClass = CLASS_CORRIDOR[1].id
  /\ reportDateFrom = ""
  /\ reportDateTo = ""
  /\ budget = [uploads |-> MaxPicks, commits |-> 0, navs |-> 2, ops |-> 0]

NextParseFail == SetActiveView \/ ExcelUploadStart \/ ExcelUploadDone

SpecParseFail == InitParseFail /\ [][NextParseFail]_vars

\* ------------------------------------------------------ marks and clears
\* The status the map m holds for (studentId, date), "none" when it holds none.
Entry(m, studentId, date) ==
  IF studentId \in DOMAIN m /\ date \in DOMAIN m[studentId] THEN m[studentId][date]
  ELSE "none"

Requests(n, op) == {id \in DOMAIN n : n[id].op = op}

\* The requests of kind op the step submits.
Submitted(op) ==
  {id \in Requests(net', op) :
     /\ net'[id].stage = "sent"
     /\ id \in DOMAIN net => net[id] # net'[id]}

\* The answered requests of kind op the step hands to the handler that awaits them.
Consumed(op) ==
  {id \in Replied(op) : id \in DOMAIN net' => net'[id] # net[id]}

Pairs == (1..3) \X Dates

\* C6: the step of markAttendance puts status at (studentId, selectedDate) in the map
\* while its upsert is still unanswered; a failed upsert submits one fetchAttendance
\* and sets the notice, the map as it was; when that fetch succeeds the map becomes
\* the map built from the rows it returned, so it holds the rejected status only if
\* those rows do; a successful upsert submits no request and leaves the map as it is.
C6_MarkOptimisticThenReconciled ==
  [][/\ \A id \in Submitted("upsert") :
          LET row == net'[id].arg[1] IN
          /\ row.date = selectedDate
          /\ Entry(attendance', row.student_id, row.date) = row.status
          /\ \A q \in Pairs :
               q # << row.student_id, row.date >> =>
                 Entry(attendance', q[1], q[2]) = Entry(attendance, q[1], q[2])
     /\ \A id \in Consumed("upsert") :
          /\ attendance' = attendance
          /\ IF net[id].outcome # "ok"
             THEN /\ Cardinality(Submitted("fetchAttendance")) = 1
                  /\ \A f \in Submitted("fetchAttendance") : net'[f].arg = net[id].arg
                  /\ toast' = Toast("Could not save attendance", 0, 0, 0)
             ELSE /\ Submitted("fetchAttendance") = {}
                  /\ Entry(attendance', net[id].arg[1].student_id, net[id].arg[1].date)
                       = Entry(attendance, net[id].arg[1].student_id, net[id].arg[1].date)
     /\ \A id \in Consumed("fetchAttendance") :
          (net[id].outcome = "ok" /\ net[id].arg # << >>) =>
            LET row == net[id].arg[1] IN
            /\ attendance' = buildAttendanceMap(net[id].data)
            /\ \A q \in Pairs :
                 Entry(attendance', q[1], q[2])
                   = Entry(buildAttendanceMap(net[id].data), q[1], q[2])
            /\ (~\E k \in 1..Len(net[id].data) :
                    SameKey(net[id].data[k], row.student_id, row.date))
                 => Entry(attendance', row.student_id, row.date) = "none"]_vars

\* The refetch that a rejected upsert called has come back with the backend's rows,
\* whose row for the pair has another status, while the map still holds the
\* rejected one.
C6_Witness ==
  \E id \in Replied("fetchAttendance") :
    /\ net[id].outcome = "ok"
    /\ net[id].arg # << >>
    /\ "status" \in DOMAIN net[id].arg[1]
    /\ Entry(attendance, net[id].arg[1].student_id, net[id].arg[1].date)
         = net[id].arg[1].status
    /\ Entry(buildAttendanceMap(net[id].data), net[id].arg[1].student_id,
             net[id].arg[1].date) \notin { "none", net[id].arg[1].status }
    /\ toast = Toast("Could not save attendance", 0, 0, 0)

\* C7: the step of clearAttendance removes the entry of (studentId, selectedDate)
\* from the map and changes no other entry, so a map without that entry stays as it
\* is; it submits one delete whose match is exactly that pair; a failed delete sets
\* the notice and submits one fetchAttendance, and when that fetch succeeds the map
\* has the pair again with the status of the returned rows.
C7_ClearOnlyThePair ==
  [][/\ \A id \in Submitted("delete") :
          LET row == net'[id].arg[1] IN
          /\ DOMAIN row = { "student_id", "date" }
          /\ row.date = selectedDate
          /\ Cardinality(Submitted("delete")) = 1
          /\ Entry(attendance', row.student_id, row.date) = "none"
          /\ \A q \in Pairs :
               q # << row.student_id, row.date >> =>
                 Entry(attendance', q[1], q[2]) = Entry(attendance, q[1], q[2])
          /\ DOMAIN attendance' \subseteq DOMAIN attendance
          /\ \A x \in DOMAIN attendance' : DOMAIN attendance'[x] \subseteq DOMAIN attendance[x]
          /\ Entry(attendance, row.student_id, row.date) = "none" => attendance' = attendance
     /\ \A id \in Consumed("delete") :
          /\ attendance' = attendance
          /\ IF net[id].outcome # "ok"
             THEN /\ Cardinality(Submitted("fetchAttendance")) = 1
                  /\ \A f \in Submitted("fetchAttendance") : net'[f].arg = net[id].arg
                  /\ toast' = Toast("Could not clear attendance", 0, 0, 0)
             ELSE Submitted("fetchAttendance") = {}
     /\ \A id \in Consumed("fetchAttendance") :
          (/\ net[id].outcome = "ok"
           /\ net[id].arg # << >>
           /\ "status" \notin DOMAIN net[id].arg[1]) =>
            LET row == net[id].arg[1]
                held == {k \in 1..Len(net[id].data) :
                           SameKey(net[id].data[k], row.student_id, row.date)}
            IN
            /\ attendance' = buildAttendanceMap(net[id].data)
            /\ held # {} =>
                 \E k \in held :
                   Entry(attendance', row.student_id, row.date) = net[id].data[k].status]_vars

\* A delete the backend refused was for one of two dates the student has, the map
\* has lost only that date, and the refetch has come back with both rows.
C7_Witness ==
  \E id \in Replied("fetchAttendance") :
    /\ net[id].outcome = "ok"
    /\ net[id].arg # << >>
    /\ "status" \notin DOMAIN net[id].arg[1]
    /\ Entry(attendance, net[id].arg[1].student_id, net[id].arg[1].date) = "none"
    /\ Entry(buildAttendanceMap(net[id].data), net[id].arg[1].student_id,
             net[id].arg[1].date) # "none"
    /\ net[id].arg[1].student_id \in DOMAIN attendance
    /\ toast = Toast("Could not clear attendance", 0, 0, 0)

\* The rows of a fetched list that count for the pair q.
UsableFor(rows, q) ==
  {k \in 1..Len(rows) : ~RowUnusable(rows[k]) /\ SameKey(rows[k], q[1], q[2])}

\* C8: the map holds one status, and no more, for each pair it has: every step
\* leaves a map from students to maps from dates to one status; a mark of a pair
\* that has a status leaves the new status there; a map built from fetched rows has
\* for each pair the status of the last row of that pair, and nothing for a pair
\* without a row.
C8_OneStatusPerPair ==
  [][/\ \A s \in DOMAIN attendance' :
          /\ s \in 1..3
          /\ DOMAIN attendance'[s] # {}
          /\ \A d \in DOMAIN attendance'[s] :
               /\ d \in Dates
               /\ Cardinality({st \in Statuses : attendance'[s][d] = st}) = 1
     /\ \A id \in Submitted("upsert") :
          LET row == net'[id].arg[1] IN
          Entry(attendance', row.student_id, row.date) = row.status
     /\ \A id \in Consumed("fetchAttendance") :
          net[id].outcome = "ok" =>
            \A q \in Pairs :
              LET usable == UsableFor(net[id].data, q) IN
              Entry(attendance', q[1], q[2]) =
                IF usable = {} THEN "none"
                ELSE net[id].data[CHOOSE k \in usable : \A j \in usable : j <= k].status]_vars

\* The map was built from a table with three rows for one pair, the first two of a
\* status and the last of the other, and holds the status of the last.
C8_Witness ==
  /\ net = << >>
  /\ budget.ops = 1
  /\ Len(dbAttendance) = MaxTableRows
  /\ \A k \in 1..Len(dbAttendance) : SameKey(dbAttendance[k], 1, "2024-01-01")
  /\ dbAttendance[1].status = dbAttendance[2].status
  /\ dbAttendance[2].status # dbAttendance[3].status
  /\ Entry(attendance, 1, "2024-01-01") = dbAttendance[3].status

\* Every request has been answered and its answer handled, and none has failed
\* (in Spec a failure sets a notice and nothing takes a notice away).
SettledWithoutFailure == net = << >> /\ stuFetch.pc = "done" /\ toast = NoToast

\* C9: once every request the client issued has resolved, the attendance map is the
\* map built from the rows the backend holds, here even in the sessions where no
\* request failed.
C9_CacheConsistentWhenSettled ==
  SettledWithoutFailure => attendance = buildAttendanceMap(dbAttendance)

\* C10: a fetchAttendance that fails leaves the attendance map as it is and sets the
\* notice; a page of fetchStudents that fails, the first or a later one, leaves the
\* students list as it is, sets the notice and ends the load; the load changes the
\* students list only with its last page, to all the rows it has read.
C10_FailedLoadKeepsCache ==
  [][/\ \A id \in Consumed("fetchAttendance") :
          net[id].outcome # "ok" =>
            /\ attendance' = attendance
            /\ toast' = Toast("Could not load attendance records", 0, 0, 0)
     /\ \A id \in Consumed("fetchStudents") :
          IF net[id].outcome # "ok"
          THEN /\ students' = students
               /\ toast' = Toast("Could not load students from Supabase", 0, 0, 0)
               /\ stuFetch'.pc = "done"
               /\ Requests(net', "fetchStudents") = {}
          ELSE IF Len(net[id].data) = batchSize
          THEN /\ students' = students
               /\ stuFetch'.pc = "await"
          ELSE students' = stuFetch.allStudents \o SeqMap(mapStudentFromDb, net[id].data)]_vars

\* The load has failed at its second page, after a first page of batchSize rows, and
\* the list still has the one student a save had added before.
C10_Witness ==
  /\ stuFetch.pc = "done"
  /\ stuFetch.failedAt = batchSize
  /\ Len(stuFetch.allStudents) = batchSize
  /\ toast = Toast("Could not load students from Supabase", 0, 0, 0)
  /\ Len(students) = 1
  /\ students[1].name = "Abel"

\* ------------------------------------------------------ roster writes
SaveOps == { "update", "create" }

\* The answers to writes of students the step hands to their handlers.
ConsumedSaves == UNION { Consumed(op) : op \in SaveOps }

\* C11: a rejected delete leaves the students list as it is and sets the notice; a
\* rejected update or insert leaves the students list and the edit form, open with
\* its values, as they are and sets a notice; the students list changes only in a
\* step that takes a confirmed write, and the form is closed, unless the user
\* closes it, only in a step that takes a confirmed update or insert.
C11_RejectedWriteKeepsRoster ==
  [][/\ \A id \in Consumed("deleteStudent") :
          net[id].outcome # "ok" =>
            /\ students' = students
            /\ toast' = Toast("Unable to delete student", 0, 0, 0)
     /\ \A id \in ConsumedSaves :
          net[id].outcome # "ok" =>
            /\ students' = students
            /\ editDraft' = editDraft
            /\ toast'.msg # ""
            /\ toast'.msg \in { net[id].data[1].message, "Could not save student" }
     /\ students' # students =>
          \E id \in ConsumedSaves \cup Consumed("deleteStudent") : net[id].outcome = "ok"
     /\ (editDraft.open /\ ~editDraft'.open /\ budget' = budget) =>
          \E id \in ConsumedSaves : net[id].outcome = "ok"]_vars

\* The backend has rejected the update of a student whose name the user changed:
\* the form is still open with the new name and the list has the old one.
C11_Witness ==
  /\ toast = Toast("Could not save student", 0, 0, 0)
  /\ editDraft.open
  /\ editDraft.id = 1
  /\ editDraft.name = "Marta"
  /\ Len(students) = 2
  /\ students[1].name = "Sara"
  /\ Requests(net, "update") = {}

\* C12: the step in which handleStudentDelete takes the confirmation of the delete
\* of a student leaves the students list without that student and the attendance
\* map without an entry for the student's id, the entries of the other students as
\* they were.
C12_DeleteDropsAttendance ==
  [][\A id \in Consumed("deleteStudent") :
       net[id].outcome = "ok" =>
         /\ \A k \in 1..Len(students') : students'[k].id # net[id].owner
         /\ net[id].owner \notin DOMAIN attendance'
         /\ \A s \in DOMAIN attendance \ { net[id].owner } :
              s \in DOMAIN attendance' /\ attendance'[s] = attendance[s]
         /\ DOMAIN attendance' \subseteq DOMAIN attendance]_vars

\* The delete of a student with an attendance entry has been confirmed and taken:
\* the other student still has an entry.
C12_DeletedWithEntries ==
  /\ toast = Toast("Student removed from roster", 0, 0, 0)
  /\ Len(students) = 1
  /\ students[1].id = 2
  /\ 2 \in DOMAIN attendance

\* ------------------------------------------------------------- class reports
\* The students of the class the report is about.
RosterIds == { students[k].id : k \in { i \in 1..Len(students) : students[i].classId = reportClass } }

\* The date lies in the range the view asks for.
Within(date) ==
  /\ reportDateFrom = "" \/ DateRank(date) >= DateRank(reportDateFrom)
  /\ reportDateTo = "" \/ DateRank(date) <= DateRank(reportDateTo)

Recorded(id, date) == id \in DOMAIN attendance /\ date \in DOMAIN attendance[id]

\* The dates of the range on which a student of the roster has a record.
ReportDays == { d \in Dates : Within(d) /\ \E id \in RosterIds : Recorded(id, d) }

\* The (student, date) pairs of the report with no record.
Missing == { pr \in RosterIds \X ReportDays : ~Recorded(pr[1], pr[2]) }

\* The pairs of the report whose record holds one of the given statuses.
RecordedAs(statuses) ==
  { pr \in RosterIds \X ReportDays :
      Recorded(pr[1], pr[2]) /\ attendance[pr[1]][pr[2]] \in statuses }

\* The instance: three students of C1, student 1 has P and student 2 has PR on
\* 2024-01-01, and the range is that date.
ThreeStudentsOneDate ==
  /\ \A k \in 1..Len(students) : students[k].classId = CLASS_CORRIDOR[1].id
  /\ reportClass = CLASS_CORRIDOR[1].id
  /\ attendance = (1 :> ("2024-01-01" :> "P") @@ 2 :> ("2024-01-01" :> "PR"))
  /\ reportDateFrom = "2024-01-01"
  /\ reportDateTo = "2024-01-01"

\* C13: the report counts as P and as PR the records of the roster in the range that
\* hold these statuses, and counts as absent, once each, the pairs of a roster
\* student and a date of the report with no record, on top of what the stored records
\* that are neither P nor PR add; students of other classes add nothing. In the
\* instance the counts are 1, 1, 1 and the percentages 33, 33, 33.
C13_DerivedAbsence ==
  \A keys \in KeyOrders :
    LET r == Report(keys) IN
      /\ r.counts.P = Cardinality(RecordedAs({ "P" }))
      /\ r.counts.PR = Cardinality(RecordedAs({ "PR" }))
      /\ r.counts.A = Cardinality(Missing)
                      + Cardinality(RecordedAs(ReportStatuses \ { "P", "PR" }))
                      + Cardinality(RecordedAs({ NullText }))
      /\ \A pr \in Missing :
           \E k \in 1..Len(r.absentDetails) :
             /\ r.absentDetails[k].student.id = pr[1]
             /\ \E i \in 1..Len(r.absentDetails[k].dates) : r.absentDetails[k].dates[i] = pr[2]
      /\ ThreeStudentsOneDate =>
           /\ r.counts = [P |-> 1, A |-> 1, PR |-> 1]
           /\ r.percentages = [P |-> 33, A |-> 33, PR |-> 33]

\* The instance: student 3 is the one pair with no record.
C13_Witness ==
  /\ ThreeStudentsOneDate
  /\ Report(DateOrder).counts.A = 1
  /\ Missing = { << 3, "2024-01-01" >> }

\* The pairs of the report that stand for an absence: no record, or a record that is
\* neither P nor PR.
AbsentPairs ==
  { pr \in RosterIds \X ReportDays :
      ~Recorded(pr[1], pr[2]) \/ attendance[pr[1]][pr[2]] \notin { "P", "PR" } }

RECURSIVE ListedDates(_, _)
\* The number of dates that the entries of absentDetails list, from entry k on.
ListedDates(details, k) ==
  IF k > Len(details) THEN 0 ELSE Len(details[k].dates) + ListedDates(details, k + 1)

\* C14: absentDetails has one entry for each roster student with an absence and none
\* for another student, each entry lists the dates of the student's absences without
\* a repeat, and the number of listed dates is counts.A.
C14_AbsentDetailsMatchCount ==
  \A keys \in KeyOrders :
    LET r == Report(keys)
        details == r.absentDetails
    IN /\ \A k, l \in 1..Len(details) : details[k].student.id = details[l].student.id => k = l
       /\ { details[k].student.id : k \in 1..Len(details) } = { pr[1] : pr \in AbsentPairs }
       /\ \A k \in 1..Len(details) :
            LET dates == details[k].dates IN
              /\ \A i, j \in 1..Len(dates) : dates[i] = dates[j] => i = j
              /\ { dates[i] : i \in 1..Len(dates) }
                   = { pr[2] : pr \in { q \in AbsentPairs : q[1] = details[k].student.id } }
       /\ ListedDates(details, 1) = r.counts.A

\* The same statement for the tables in which no record of the report is null.
C14_HoldsWithoutNullStatus ==
  RecordedAs({ NullText }) = {} => C14_AbsentDetailsMatchCount

\* The attendance map without the records dated outside the range.
InRangeOnly ==
  [ id \in DOMAIN attendance |->
      [ d \in { x \in DOMAIN attendance[id] : Within(x) } |-> attendance[id][d] ] ]

\* C15: the report is the report, with no bound, of the records dated from
\* reportDateFrom to reportDateTo inclusive, a missing bound excluding nothing;
\* uniqueDays counts the dates of that range with a roster record, and absentDetails
\* lists no other date.
C15_RangeInclusive ==
  \A keys \in KeyOrders :
    LET r == Report(keys) IN
      /\ r = buildClassReport(students, InRangeOnly, reportClass, "", "", keys)
      /\ r.uniqueDays = Cardinality(ReportDays)
      /\ \A k \in 1..Len(r.absentDetails) :
           \A i \in 1..Len(r.absentDetails[k].dates) :
             r.absentDetails[k].dates[i] \in ReportDays

\* The range starts at the second date; a roster student has a record on each date,
\* and the report has the one of the second date only.
C15_Witness ==
  /\ reportDateFrom = DateOrder[2]
  /\ reportDateTo = ""
  /\ \E id \in RosterIds : Recorded(id, DateOrder[1]) /\ Recorded(id, DateOrder[2])
  /\ Report(DateOrder).uniqueDays = 1
  /\ Report(DateOrder).totalStudentDays = Cardinality(RosterIds)

\* value is the integer nearest to 100 * count / total.
NearestPercent(value, count, total) ==
  LET diff == 100 * count - value * total
  IN 2 * (IF diff < 0 THEN -diff ELSE diff) <= total

\* C16: with no record of a roster student in the range the total is 0 and the three
\* percentages are 0; otherwise each percentage is the integer nearest to
\* 100 * count / totalStudentDays.
C16_PercentagesRounded ==
  \A keys \in KeyOrders :
    LET r == Report(keys) IN
      /\ r.totalStudentDays = r.counts.P + r.counts.A + r.counts.PR
      /\ ReportDays = {} =>
           /\ r.totalStudentDays = 0
           /\ r.percentages = [P |-> 0, A |-> 0, PR |-> 0]
      /\ ReportDays # {} =>
           /\ r.totalStudentDays > 0
           /\ \A st \in { "P", "A", "PR" } :
                NearestPercent(r.percentages[st], r.counts[st], r.totalStudentDays)

\* The roster has records, all of them dated before the range.
C16_Witness ==
  /\ \E id \in RosterIds : Recorded(id, DateOrder[1])
  /\ reportDateFrom = DateOrder[2]
  /\ ReportDays = {}
  /\ Report(DateOrder).totalStudentDays = 0
  /\ Report(DateOrder).percentages = [P |-> 0, A |-> 0, PR |-> 0]

\* Two runs on the same inputs give the same counts and percentages, in whatever
\* order each run is handed the records of a student.
SameCountsEveryRun ==
  \A first, second \in KeyOrders :
    /\ Report(first).counts = Report(second).counts
    /\ Report(first).percentages = Report(second).percentages
    /\ Report(first).totalStudentDays = Report(second).totalStudentDays

\* C17: running buildClassReport again on the same students, attendance map, class
\* and range gives the same counts and percentages, and a step of the reports view,
\* which builds a report, leaves the students list and the attendance map as they
\* were.
C17_ReportRepeatable ==
  /\ []SameCountsEveryRun
  /\ [][students' = students /\ attendance' = attendance]_vars

\* Two runs that differ (the dates of an absent student come in another order) and
\* agree on the counts, after the range was set.
C17_Witness ==
  /\ reportDateTo = DateOrder[2]
  /\ Report(DateOrder).absentDetails # Report(<< DateOrder[2], DateOrder[1] >>).absentDetails
  /\ Report(DateOrder).counts = Report(<< DateOrder[2], DateOrder[1] >>).counts
  /\ Report(DateOrder).counts.A > 0

\* ------------------------------------------------------------ sheet parsing
\* The largest number of cells of a row of the sheet.
Widest(aoa) ==
  IF aoa = << >> THEN 0
  ELSE LET lens == { Len(aoa[i]) : i \in 1..Len(aoa) }
       IN CHOOSE m \in lens : \A n \in lens : n <= m

\* The 0-based column j of a normalized row, '' past its end.
Column(row, j) == IF j + 1 \in 1..Len(row) THEN row[j + 1] ELSE ""

Loaded == toast.msg = "Loaded rows from Excel"

\* C18: the normalized grid of a sheet has as many rows as the sheet, each of as many
\* cells as the widest row of the sheet: the cells of the row in their places, then
\* empty texts; and the parse gives one candidate row for each body row, whose
\* fields are the columns 0, 1, 3, 4, 5 of the normalized row, '' where the grid has
\* no such column.
C18_GridUniform ==
  \A f \in files :
    LET aoa == SheetOf(f)
        fixed == normalizeRows(aoa, MaxLen(aoa))
    IN /\ Len(fixed) = Len(aoa)
       /\ \A i \in 1..Len(aoa) :
            /\ Len(fixed[i]) = Widest(aoa)
            /\ \A j \in 1..Widest(aoa) :
                 fixed[i][j] = IF j <= Len(aoa[i]) THEN aoa[i][j] ELSE ""
       /\ Loaded =>
            /\ Len(uploadPreview) = (IF aoa = << >> THEN 0 ELSE Len(aoa) - 1)
            /\ \A k \in 1..Len(uploadPreview) :
                 /\ uploadPreview[k].rollNumber = Column(fixed[k + 1], 0)
                 /\ uploadPreview[k].name = Column(fixed[k + 1], 1)
                 /\ uploadPreview[k].age = Column(fixed[k + 1], 3)
                 /\ uploadPreview[k].phone = Column(fixed[k + 1], 4)
                 /\ uploadPreview[k].altPhone = Column(fixed[k + 1], 5)

\* A parsed sheet whose first body row is shorter than its second: the candidate of
\* the short row has the padding as its age.
C18_Witness ==
  /\ Loaded
  /\ Len(uploadPreview) = 2
  /\ \E f \in files :
       /\ Len(SheetOf(f)[2]) = 2
       /\ Len(SheetOf(f)[3]) = MaxCells
  /\ uploadPreview[1].age = ""
  /\ uploadPreview[2].age = "12"

\* What the chain gives for each hint, the directory being C1, C2 and positions being
\* counted from 0 as CLASS_CORRIDOR[index] counts them.
ChainClass ==
  [ hint \in Hints |->
      CASE hint = "" -> CLASS_CORRIDOR[1].id        \* empty: the first class
        [] hint = "C1" -> CLASS_CORRIDOR[1].id      \* holds the label c1
        [] hint = "c2" -> CLASS_CORRIDOR[2].id      \* holds the label c2
        [] hint = "XC2X" -> CLASS_CORRIDOR[2].id    \* holds the label c2, not position 2
        [] hint = "c2C1" -> CLASS_CORRIDOR[1].id    \* holds both: the first of the directory
        [] hint = "0" -> CLASS_CORRIDOR[1].id       \* position 0
        [] hint = "1" -> CLASS_CORRIDOR[2].id       \* position 1
        [] hint = "x1y0" -> CLASS_CORRIDOR[2].id    \* the first integer is 1
        [] hint = "2" -> CLASS_CORRIDOR[1].id       \* no position 2: the first class
        [] hint = "7" -> CLASS_CORRIDOR[1].id       \* no position 7
        [] hint = "10" -> CLASS_CORRIDOR[1].id      \* the integer is 10, no such position
        [] hint = "x" -> CLASS_CORRIDOR[1].id ]     \* no label, no integer

\* The class hints of the body rows of a sheet.
HintsOf(aoa) == { Column(aoa[i], 2) : i \in 2..Len(aoa) }

\* C19: for the hint of every body row, matchClass gives the id of a class of the
\* directory, the one the chain names: the first class for an empty hint; else the
\* first class of the directory whose lowercased label the lowercased hint holds;
\* else the class at the position (from 0) that the first integer of the hint
\* names, the first class if there is none; else the first class.
C19_MatchClassChain ==
  \A f \in files :
    \A hint \in HintsOf(SheetOf(f)) :
      /\ matchClass(hint) \in ClassIds
      /\ matchClass(hint) = ChainClass[hint]

\* A parsed sheet with the hint 'x1y0', which names position 1, the second class.
C19_Witness ==
  /\ Loaded
  /\ \E f \in files : "x1y0" \in HintsOf(SheetOf(f))
  /\ matchClass("x1y0") = CLASS_CORRIDOR[2].id

\* The step in which the upload handler, resumed after the file was read, sets the
\* candidate rows.
ParsedStep == Len(excel) = 1 /\ excel' = << >> /\ toast'.msg = "Loaded rows from Excel"

\* C20: the destination class is always set, and every candidate row of a parse has
\* as its class the destination class that the handler holds, the one selected when
\* the file was picked, whatever its hint cell holds and resolves to; a later change
\* of the selector leaves the candidate rows as they are.
C20_DestinationClassWins ==
  [][ /\ uploadClass \in ClassIds
      /\ ParsedStep =>
           /\ excel[1].uploadClass \in ClassIds
           /\ \A k \in 1..Len(uploadPreview') :
                uploadPreview'[k].classId = excel[1].uploadClass
      /\ uploadClass' # uploadClass => uploadPreview' = uploadPreview ]_vars

\* A parsed sheet whose first body row has the hint 'c2', which names the second
\* class, as a candidate of the first class, the destination.
C20_Witness ==
  /\ Loaded
  /\ uploadClass = CLASS_CORRIDOR[1].id
  /\ \E f \in files :
       /\ Len(SheetOf(f)) >= 2
       /\ Column(SheetOf(f)[2], 2) = "c2"
  /\ matchClass("c2") = CLASS_CORRIDOR[2].id
  /\ uploadPreview # << >>
  /\ \A k \in 1..Len(uploadPreview) : uploadPreview[k].classId = CLASS_CORRIDOR[1].id

\* The sheet of the instance: the header, a filled row, a row of empty cells.
FilledThenBlank == << HeaderRow, FilledRow(1), BlankRow >>

\* C21: a parse gives one candidate row for each row below the header, empty rows
\* included, in the order of the sheet; the k-th carries the row index k + 1, so the
\* indices are distinct and increase. The instance gives 2 candidates, the second
\* with an empty name.
C21_OneCandidatePerRow ==
  \A f \in files :
    Loaded =>
      LET aoa == SheetOf(f) IN
        /\ Len(uploadPreview) = (IF aoa = << >> THEN 0 ELSE Len(aoa) - 1)
        /\ \A k \in 1..Len(uploadPreview) :
             /\ uploadPreview[k].rowIndex = k + 1
             /\ uploadPreview[k].rollNumber = Column(aoa[k + 1], 0)
             /\ uploadPreview[k].name = Column(aoa[k + 1], 1)
             /\ uploadPreview[k].age = Column(aoa[k + 1], 3)
        /\ \A k, l \in 1..Len(uploadPreview) :
             k < l => uploadPreview[k].rowIndex < uploadPreview[l].rowIndex
        /\ aoa = FilledThenBlank =>
             /\ Len(uploadPreview) = 2
             /\ uploadPreview[1].name = "Abel"
             /\ uploadPreview[2].name = ""

\* The instance, parsed.
C21_Witness ==
  /\ Loaded
  /\ \E f \in files : SheetOf(f) = FilledThenBlank
  /\ Len(uploadPreview) = 2
  /\ uploadPreview[2].name = ""
  /\ uploadPreview[2].rowIndex = 3

\* The step in which the upload handler ends in its catch.
ReadFailedStep ==
  /\ Len(excel') < Len(excel)
  /\ \E k \in 1..Len(excel) :
       /\ ~excel[k].file.readable
       /\ excel' = [j \in 1..(Len(excel) - 1) |-> IF j < k THEN excel[j] ELSE excel[j + 1]]
  /\ toast'.msg = "Error reading Excel file"

\* C22: when the file cannot be read the handler sets the notice and nothing else:
\* the preview and the active view stay as they were before the step, and no request
\* is sent to the backend, by this step or by the one that started the upload.
C22_FailedReadKeepsPreview ==
  [][ /\ ReadFailedStep =>
           /\ uploadPreview' = uploadPreview
           /\ activeView' = activeView
           /\ toast'.msg # ""
      /\ excel' # excel => (net' = net /\ log' = log /\ dbStudents' = dbStudents) ]_vars

\* A failed read after a successful one, away from the upload view: the earlier
\* preview is still there.
C22_Witness ==
  /\ toast.msg = "Error reading Excel file"
  /\ excel = << >>
  /\ Len(uploadPreview) = 2
  /\ activeView # "upload"

\* ------------------------------------------------------- superseded fetches
\* The backend holds a row for a pair of which the map has no entry.
MapLacksStoredEntry ==
  \E k \in 1..Len(dbAttendance) :
    /\ ~RowUnusable(dbAttendance[k])
    /\ Entry(attendance, dbAttendance[k].student_id, dbAttendance[k].date) = "none"

\* C23: a mark or a clear leaves the fetches in flight as they are, and the answer of
\* a fetch that succeeded replaces the whole map by the map of the rows it read,
\* whatever was marked since it was sent.
C23_FetchNeverCancelled ==
  [][/\ (Submitted("upsert") \cup Submitted("delete") # {}) =>
          \A id \in Requests(net, "fetchAttendance") :
            id \in DOMAIN net' /\ net'[id] = net[id]
     /\ \A id \in Consumed("fetchAttendance") :
          net[id].outcome = "ok" => attendance' = buildAttendanceMap(net[id].data)]_vars

\* Every request has resolved, none has failed, the backend holds the row of a mark
\* and the map has no entry for it: the fetch read the table before the upsert was
\* applied and its answer came after the mark.
C23_Witness ==
  /\ SettledWithoutFailure
  /\ budget.ops < MaxOps
  /\ MapLacksStoredEntry

\* ------------------------------------------------- the retry specification
\* The number of times "Save to roster" is pressed.
MaxCommits == 2

\* A sheet the backend accepts whole and a sheet with a row it rejects; both hold
\* fewer rows than a chunk, so that each run submits one chunk.
RetryFiles ==
  { [readable |-> TRUE, sheet |-> << HeaderRow, FilledRow(1), BlankRow >>],
    [readable |-> TRUE, sheet |-> << HeaderRow, FilledRow(2), FilledRow(3) >>] }

\* The upload view is open with nothing loaded; the user picks a file and presses
\* "Save to roster" at any moment, again while a run is going on or after it.
InitRetry ==
  /\ activeView = "upload"
  /\ selectedClass = CLASS_CORRIDOR[1].id
  /\ dbStudents = << StoredStudent(1, CLASS_CORRIDOR[1].id) >>
  /\ dbNextId = 2
  /\ students = SeqMap(mapStudentFromDb, dbStudents)
  /\ dbAttendance = << >>
  /\ attendance = << >>
  /\ uploadPreview = << >>
  /\ uploadClass = CLASS_CORRIDOR[1].id
  /\ selectedDate = "2024-01-01"
  /\ toast = NoToast
  /\ excel = << >>
  /\ runs = << >>
  /\ log = << >>
  /\ stuFetch = [pc |-> "done", allStudents |-> students, from |-> 0, awaiting |-> 0,
                 failedAt |-> -1]
  /\ net = << >>
  /\ nextReq = 1
  /\ throwAt \in { {}, {MaxThrowAt} }
  /\ files = RetryFiles
  /\ searchTerm = ""
  /\ editDraft = NoDraft
  /\ reportClass = CLASS_CORRIDOR[1].id
  /\ reportDateFrom = ""
  /\ reportDateTo = ""
  /\ budget = [uploads |-> 1, commits |-> MaxCommits, navs |-> 0, ops |-> 0]

NextRetry ==
  \/ ExcelUploadStart
  \/ ExcelUploadDone
  \/ CommitStart
  \/ BackendInsert
  \/ BackendThrows
  \/ CommitBatchReply
  \/ CommitRowReply
  \/ CommitRowDelay
  \/ CommitFinish

SpecRetry == InitRetry /\ [][NextRetry]_vars

\* Run r has ended and reported a failed row.
EndedWithFailures(r) == runs[r].pc = "done" /\ Len(runs[r].failedRows) > 0

\* The positions of its preview that run r has submitted, in a chunk or alone.
SubmittedPositions(r) ==
  UNION { log[r][k].first..log[r][k].last : k \in 1..Len(log[r]) }

\* The number of student rows of the backend that hold what the preview row holds.
StoredCopies(row) ==
  Cardinality({k \in DOMAIN dbStudents :
                 \A f \in DOMAIN mapToDbRow(row) : dbStudents[k][f] = mapToDbRow(row)[f]})

\* The runs that have persisted the preview row.
PersistedBy(row) ==
  {r \in DOMAIN runs :
     \E p \in PersistedPositions(r) : runs[r].preview[p] = row}

\* Run s is started, in the step at hand, on the preview run r has left.
RetriesAfter(r, s) ==
  /\ EndedWithFailures(r)
  /\ uploadPreview = runs[r].preview
  /\ s = Len(runs) + 1
  /\ s \in DOMAIN runs'

\* C24: the step that ends a run with a failed row leaves in the preview every row
\* of the run, those it has persisted included; a run started on that preview
\* submits all of them again, the persisted ones first of all in its first insert;
\* and when both runs have ended, a row both have persisted is held by the backend
\* twice, once for every run that persisted it.
C24_RetryDuplicatesPersisted ==
  /\ [][\A r \in DOMAIN runs :
          /\ (Finishes(r) /\ Len(runs[r].failedRows) > 0 /\ uploadPreview = runs[r].preview)
               => /\ PersistedPositions(r) \subseteq DOMAIN uploadPreview'
                  /\ \A q \in PersistedPositions(r) : uploadPreview'[q] = runs[r].preview[q]
          /\ \A s \in DOMAIN runs' :
               RetriesAfter(r, s) =>
                 /\ runs'[s].preview = runs[r].preview
                 /\ \E id \in DOMAIN net' :
                      /\ id \notin DOMAIN net
                      /\ net'[id].op = "insert" /\ net'[id].owner = s
                      /\ net'[id].arg = SeqMap(mapToDbRow, batches(runs[r].preview, 0))]_vars
  /\ [](\A r \in DOMAIN runs : \A s \in DOMAIN runs :
          (r < s /\ EndedWithFailures(r) /\ runs[s].pc = "done"
             /\ runs[s].preview = runs[r].preview)
            => /\ PersistedPositions(r) \subseteq SubmittedPositions(s)
               /\ \A q \in PersistedPositions(r) \cap PersistedPositions(s) :
                    /\ StoredCopies(runs[r].preview[q]) >= 2
                    /\ (\A t \in DOMAIN runs : runs[t].pc = "done")
                         => StoredCopies(runs[r].preview[q])
                              = Cardinality(PersistedBy(runs[r].preview[q])))

\* Two runs on the same preview have ended, the first with one row persisted and
\* one failed, and the backend holds the persisted row twice.
C24_Witness ==
  /\ Len(runs) = 2
  /\ EndedWithFailures(1) /\ runs[2].pc = "done"
  /\ runs[2].preview = runs[1].preview
  /\ uploadPreview = runs[1].preview
  /\ \E q \in PersistedPositions(1) \cap PersistedPositions(2) :
       StoredCopies(runs[1].preview[q]) = 2

\* The runs of commitUpload that have not reached their last step.
ActiveRuns == {r \in DOMAIN runs : runs[r].pc # "done"}

\* The insert requests of run r that the backend has not been answered for, or
\* whose answer the run has not consumed.
InsertsInFlight(r) == {id \in DOMAIN net : net[id].op = "insert" /\ net[id].owner = r}

\* C25: at most one run of commitUpload is active at a time, and no two insert
\* requests of different runs are in flight together.
C25_OneRunAtATime ==
  /\ Cardinality(ActiveRuns) <= 1
  /\ \A r \in DOMAIN runs : \A s \in DOMAIN runs :
       (InsertsInFlight(r) # {} /\ InsertsInFlight(s) # {}) => r = s

\* A second run was started during the first, and before the first has ended the
\* backend holds a row of their preview twice.
C25_OverlapStoresTwice ==
  /\ Len(runs) = 2
  /\ runs[1].pc # "done"
  /\ runs[2].preview = runs[1].preview
  /\ \E q \in DOMAIN runs[1].preview : StoredCopies(runs[1].preview[q]) = 2

\* ------------------------------------------------ the reload specification
\* The upload view is open with nothing loaded; the user picks files, one after
\* another or before the earlier one is read, and presses "Save to roster" once,
\* before, between or after the picks.
InitReload ==
  /\ activeView = "upload"
  /\ selectedClass = CLASS_CORRIDOR[1].id
  /\ dbStudents = << StoredStudent(1, CLASS_CORRIDOR[1].id) >>
  /\ dbNextId = 2
  /\ students = SeqMap(mapStudentFromDb, dbStudents)
  /\ dbAttendance = << >>
  /\ attendance = << >>
  /\ uploadPreview = << >>
  /\ uploadClass = CLASS_CORRIDOR[1].id
  /\ selectedDate = "2024-01-01"
  /\ toast = NoToast
  /\ excel = << >>
  /\ runs = << >>
  /\ log = << >>
  /\ stuFetch = [pc |-> "done", allStudents |-> students, from |-> 0, awaiting |-> 0,
                 failedAt |-> -1]
  /\ net = << >>
  /\ nextReq = 1
  /\ throwAt \in { {}, {MaxThrowAt} }
  /\ files = RetryFiles
  /\ searchTerm = ""
  /\ editDraft = NoDraft
  /\ reportClass = CLASS_CORRIDOR[1].id
  /\ reportDateFrom = ""
  /\ reportDateTo = ""
  /\ budget = [uploads |-> MaxPicks, commits |-> 1, navs |-> 0, ops |-> 0]

NextReload ==
  \/ ExcelUploadStart
  \/ ExcelUploadDone
  \/ CommitStart
  \/ BackendInsert
  \/ BackendThrows
  \/ CommitBatchReply
  \/ CommitRowReply
  \/ CommitRowDelay
  \/ CommitFinish

SpecReload == InitReload /\ [][NextReload]_vars

\* The rows the request at the end of the log of run r was issued for.
LastSubmitted(r) ==
  LET e == log[r][Len(log[r])] IN SeqMap(mapToDbRow, SubSeq(runs[r].preview, e.first, e.last))

\* Every insert of a run in flight carries rows of the preview as it was when the
\* run started, whatever the preview has become.
C26_RunSubmitsItsOwnPreview ==
  \A r \in DOMAIN runs : \A id \in InsertsInFlight(r) : net[id].arg = LastSubmitted(r)

\* C26: the step that ends a run with no failed row and empties a preview empties
\* the preview the run was started on, so that a preview loaded during the run is
\* never emptied unsaved; and every insert of a run carries rows of the preview as
\* it was when the run started.
C26_ClearsTheCommittedPreview ==
  /\ [][\A r \in DOMAIN runs :
          (Finishes(r) /\ runs[r].failedRows = << >> /\ uploadPreview' # uploadPreview)
            => uploadPreview = runs[r].preview]_vars
  /\ []C26_RunSubmitsItsOwnPreview

\* A run on one preview has ended without a failed row after another file was
\* loaded, and the preview is empty with the rows of that file never submitted.
C26_LoadedPreviewLost ==
  /\ Len(runs) = 1 /\ runs[1].pc = "done" /\ runs[1].failedRows = << >>
  /\ toast.msg = "All rows uploaded successfully"
  /\ uploadPreview = << >>
  /\ budget.uploads = 0 /\ excel = << >>
  /\ \E k \in DOMAIN dbStudents : dbStudents[k].roll_number = 2
  /\ \A k \in DOMAIN dbStudents : dbStudents[k].full_name # "Abel" \/ dbStudents[k].roll_number # 1

\* The request of run r that carried the whole chunk of the row that request k
\* carries alone: the rows of a chunk are sent alone one after another, right
\* after the insert of the chunk.
ChunkEntryOf(r, k) == k - 1 - ((log[r][k].first - 1) % BATCH_SIZE)

\* What identifies a stored student row apart from its id.
StoredContent(row) == << row.full_name, row.roll_number, row.class_id >>

\* C27: within one run no chunk is sent twice and no row is sent alone twice, so
\* that a row is sent at most twice; a row is sent alone only after the insert of
\* its chunk has failed or thrown, never after it has succeeded; and, the backend
\* keeping no row of an insert it has not accepted, no row is persisted twice.
C27_RowPersistedOnce ==
  /\ \A r \in DOMAIN runs :
       /\ Cardinality({log[r][k].first : k \in BatchEntries(r)}) = Cardinality(BatchEntries(r))
       /\ Cardinality({log[r][k].first : k \in RowEntries(r)}) = Cardinality(RowEntries(r))
       /\ \A k \in BatchEntries(r) :
            /\ (log[r][k].first - 1) % BATCH_SIZE = 0
            /\ log[r][k].last - log[r][k].first < BATCH_SIZE
       /\ \A k \in RowEntries(r) :
            LET j == ChunkEntryOf(r, k) IN
            /\ log[r][k].first = log[r][k].last
            /\ j \in BatchEntries(r)
            /\ log[r][k].first \in log[r][j].first..log[r][j].last
            /\ log[r][j].outcome \in {"error", "throw"}
  /\ Cardinality({StoredContent(dbStudents[k]) : k \in DOMAIN dbStudents}) = Len(dbStudents)

\* A run over more than one chunk has ended: one chunk went in whole, another
\* went through the fallback, where one row was persisted and one failed.
C27_Witness ==
  \E r \in DOMAIN runs :
    /\ runs[r].pc = "done"
    /\ \E k \in BatchEntries(r) : log[r][k].outcome = "ok"
    /\ \E k \in BatchEntries(r) : log[r][k].outcome = "error"
    /\ \E k \in RowEntries(r) : log[r][k].outcome = "ok"
    /\ \E k \in RowEntries(r) : log[r][k].outcome = "error"

\* Every status the attendance map holds is one of P, PR and A.
AllStatusesKnown ==
  \A id \in DOMAIN attendance :
    \A d \in DOMAIN attendance[id] : attendance[id][d] \in { "P", "PR", "A" }

\* C28: when every stored status is P, PR or A, the report counts every pair of a
\* roster student and a date of the report exactly once, under the status of its
\* record or as absent when it has none: totalStudentDays is rosterSize times
\* uniqueDays and is the sum of the three counts.
C28_EveryPairCountedOnce ==
  AllStatusesKnown =>
    \A keys \in KeyOrders :
      LET r == Report(keys) IN
        /\ r.rosterSize = Cardinality(RosterIds)
        /\ r.uniqueDays = Cardinality(ReportDays)
        /\ r.counts.P = Cardinality(RecordedAs({ "P" }))
        /\ r.counts.PR = Cardinality(RecordedAs({ "PR" }))
        /\ r.counts.A = Cardinality(RecordedAs({ "A" }) \cup Missing)
        /\ r.totalStudentDays = r.rosterSize * r.uniqueDays
        /\ r.counts.P + r.counts.PR + r.counts.A = r.totalStudentDays

\* A roster of three with records on two dates, one of them an A, and pairs with
\* no record: six student-days.
C28_Witness ==
  /\ AllStatusesKnown
  /\ RecordedAs({ "A" }) # {} /\ RecordedAs({ "P", "PR" }) # {} /\ Missing # {}
  /\ \E keys \in KeyOrders :
       /\ Report(keys).rosterSize = 3
       /\ Report(keys).uniqueDays = 2
       /\ Report(keys).totalStudentDays = 6

\* ------------------------------------------------ the search specification
\* The dashboard after its first load, with a student in each of two classes and
\* no attendance stored; the user types in the search box, changes view and
\* class, and marks students, from the class list or from the search results.
InitSearch ==
  /\ InitStudentsLoaded
  /\ dbAttendance = << >>
  /\ budget = [uploads |-> 0, commits |-> 0, navs |-> 1, ops |-> 1]

NextSearch ==
  \/ SetSearchTerm
  \/ SetSelectedClass
  \/ SetActiveView
  \/ BackendSelectAttendance
  \/ FetchAttendanceReply
  \/ MarkAttendance
  \/ BackendWriteAttendance
  \/ WriteAttendanceReply

SpecSearch == InitSearch /\ [][NextSearch]_vars

\* The class of the student with the given id, as the students list has it.
ClassOf(id) == students[CHOOSE k \in 1..Len(students) : students[k].id = id].classId

\* C29: every attendance row markAttendance sends, and every row the backend has
\* stored from it, carries the class of the student it is about.
C29_RowCarriesStudentsClass ==
  /\ \A id \in DOMAIN net :
       net[id].op = "upsert" => net[id].arg[1].class_id = ClassOf(net[id].arg[1].student_id)
  /\ \A k \in DOMAIN dbAttendance :
       dbAttendance[k].class_id = ClassOf(dbAttendance[k].student_id)

\* A student was marked from the search results with no class selected, and the
\* backend has stored the row with no class.
C29_StoredWithoutClass ==
  \E k \in DOMAIN dbAttendance : dbAttendance[k].class_id = NullText

\* -------------------------------------------- the delete-all specification
\* Two students of the first class and one of the second, the first with an
\* attendance row.
RosterAtStart ==
  << StoredStudent(1, CLASS_CORRIDOR[1].id), StoredStudent(2, CLASS_CORRIDOR[1].id),
     StoredStudent(3, CLASS_CORRIDOR[2].id) >>

\* The class view is open; the user searches, changes class and presses "Delete
\* all" once.
InitDeleteAll ==
  /\ activeView = "classes"
  /\ selectedClass = CLASS_CORRIDOR[1].id
  /\ dbStudents = RosterAtStart
  /\ dbNextId = 4
  /\ students = SeqMap(mapStudentFromDb, dbStudents)
  /\ dbAttendance = << StoredAttendance(1, "2024-01-01", "P") >>
  /\ attendance = buildAttendanceMap(dbAttendance)
  /\ uploadPreview = << >>
  /\ uploadClass = CLASS_CORRIDOR[1].id
  /\ selectedDate = "2024-01-01"
  /\ toast = NoToast
  /\ excel = << >>
  /\ runs = << >>
  /\ log = << >>
  /\ stuFetch = [pc |-> "done", allStudents |-> students, from |-> 0, awaiting |-> 0,
                 failedAt |-> -1]
  /\ net = << >>
  /\ nextReq = 1
  /\ throwAt = {}
  /\ files = {}
  /\ searchTerm = ""
  /\ editDraft = NoDraft
  /\ reportClass = CLASS_CORRIDOR[1].id
  /\ reportDateFrom = ""
  /\ reportDateTo = ""
  /\ budget = [uploads |-> 0, commits |-> 0, navs |-> 0, ops |-> 1]

NextDeleteAll ==
  \/ SetSearchTerm
  \/ SetSelectedClass
  \/ deleteAllStudents
  \/ BackendDeleteStudent
  \/ StudentDeleteReply

SpecDeleteAll == InitDeleteAll /\ [][NextDeleteAll]_vars

\* The ids of the students of a list or of the rows of a table.
IdsOf(list) == { list[k].id : k \in 1..Len(list) }

\* The delete requests that are on their way or whose answer is to be consumed.
DeletesInFlight == { id \in DOMAIN net : net[id].op = "deleteStudent" }

\* "Delete all" is pressed and confirmed in the step at hand.
DeletesAll == budget'.ops < budget.ops /\ net' # net

\* C30: the step of "Delete all" sends one delete for every listed student, all
\* of the selected class, and waits for none; no student whose row the backend
\* still has ever leaves the list; and once every delete has been answered and
\* its answer consumed, in whatever order, the students list is the list at
\* start without exactly the students whose delete succeeded.
C30_DeleteAllRemovesTheDeleted ==
  /\ [][DeletesAll =>
          LET new == DOMAIN net' \ DOMAIN net IN
          /\ Cardinality(new) = Cardinality(filteredStudents)
          /\ { net'[id].owner : id \in new } = { students[k].id : k \in filteredStudents }
          /\ \A id \in new : net'[id].op = "deleteStudent" /\ net'[id].stage = "sent"
          /\ \A id \in new : ClassOf(net'[id].owner) = selectedClass
          /\ students' = students]_vars
  /\ [](IdsOf(dbStudents) \subseteq IdsOf(students))
  /\ []((budget.ops = 0 /\ DeletesInFlight = {})
          => students = SelectSeq(SeqMap(mapStudentFromDb, RosterAtStart),
                                  LAMBDA s : s.id \in IdsOf(dbStudents)))

\* Both students of the class were listed: the delete of student 1 has succeeded
\* and the student has left the list, the delete of student 2 was answered with
\* an error after that, and the student of the other class is still listed.
C30_Witness ==
  /\ budget.ops = 0
  /\ IdsOf(students) = { 2, 3 }
  /\ IdsOf(dbStudents) = { 2, 3 }
  /\ \E id \in DeletesInFlight :
       /\ DeletesInFlight = { id }
       /\ net[id].owner = 2 /\ net[id].stage = "replied" /\ net[id].outcome = "error"

====
